---- MODULE Spec2Model ----
(***************************************************************************)
(* Hashline edit core of the coding agent: line hashing, "LINE#ID"         *)
(* references, batch validation and bottom-up application of edits         *)
(* (core/tools/hashline, as kept in edit-text-normalization.ts), and the   *)
(* edit tool's execute (core/tools/edit.ts).                               *)
(*                                                                         *)
(* A string is a sequence of one-character strings.  "\n" is the newline   *)
(* character; the two characters "\\" "n" in a row are the escaped         *)
(* newline a model writes inside an edit's text.                           *)
(***************************************************************************)
EXTENDS Integers, Sequences, FiniteSets, TLC

VARIABLES
    content,      \* applyHashlineEdits: the content argument
    edits,        \* applyHashlineEdits: the edits argument
    lines,        \* applyHashlineEdits: the local line array
    refs,         \* applyHashlineEdits: collectLineRefs(edits)
    refIdx,       \* validateLineRefs: position of the for-of loop (1-based)
    mismatches,   \* validateLineRefs: the local mismatches array
    sortedEdits,  \* applyHashlineEdits: the sorted copy of edits
    editIdx,      \* applyHashlineEdits: position of the apply loop (1-based)
    applied,      \* the edits whose case body has run to its break
    pc,           \* applyHashlineEdits: where the call is
    outcome,      \* what the caller gets: nothing yet, a value or an error
    disk,         \* edit tool: the file at absolutePath, or Missing
    rawEdits,     \* execute: the edits argument
    signal,       \* execute: the AbortSignal: "none", "armed" or "fired"
    listening,    \* execute: onAbort is registered on the signal
    aborted,      \* execute: the local aborted flag
    tpc,          \* execute: the await the async body is at
    locals,       \* execute: the constants of the async body assigned so far
    opsLog,       \* the calls made on the EditOperations, in order
    promise,      \* the promise execute returned
    externalWrites \* how often another writer has changed the file

applyVars == <<content, edits, lines, refs, refIdx, mismatches, sortedEdits,
               editIdx, applied, pc, outcome>>

toolVars == <<disk, rawEdits, signal, listening, aborted, tpc, locals, opsLog,
              promise, externalWrites>>

vars == <<applyVars, toolVars>>

(***************************************************************************)
(* Strings                                                                 *)
(***************************************************************************)
NL == "\n"
BACKSLASH == "\\"
\* the value of a field that is absent: no string of characters equals it
Undefined == <<"undefined">>

Digits == <<"0", "1", "2", "3", "4", "5", "6", "7", "8", "9">>

IsDigit(c) == \E i \in 1..10 : Digits[i] = c

DigitValue(c) == (CHOOSE i \in 1..10 : Digits[i] = c) - 1

Letters == {"a", "b", "c", "d", "e", "x", "y", "z", "n",
            "A", "B", "L", "I", "N", "E", "R", "S", "X", "Y"}

\* \s of a JavaScript regular expression, over the characters of the model
IsSpace(c) == c \in {" ", "\t", "\n", "\r"}

\* [\p{L}\p{N}] with the u flag
IsLetterOrNumber(c) == c \in Letters \/ IsDigit(c)

RECURSIVE Concat(_)
\* the concatenation of a sequence of strings
Concat(ss) == IF ss = <<>> THEN <<>> ELSE Head(ss) \o Concat(Tail(ss))

RECURSIVE NatToString(_)
\* `${n}` for a non-negative integer
NatToString(n) ==
    IF n < 10 THEN <<Digits[n + 1]>>
    ELSE NatToString(n \div 10) \o <<Digits[(n % 10) + 1]>>

RECURSIVE parseInt(_)
\* Number.parseInt(s, 10) for a string of decimal digits
parseInt(s) ==
    IF Len(s) = 0 THEN 0
    ELSE 10 * parseInt(SubSeq(s, 1, Len(s) - 1)) + DigitValue(s[Len(s)])

RECURSIVE split(_)
\* s.split("\n"): always at least one element
split(s) ==
    IF \A i \in 1..Len(s) : s[i] # NL THEN <<s>>
    ELSE LET k == CHOOSE i \in 1..Len(s) :
                      s[i] = NL /\ \A j \in 1..(i - 1) : s[j] # NL
         IN  <<SubSeq(s, 1, k - 1)>> \o split(SubSeq(s, k + 1, Len(s)))

RECURSIVE join(_)
\* ls.join("\n")
join(ls) ==
    IF Len(ls) = 0 THEN <<>>
    ELSE IF Len(ls) = 1 THEN ls[1]
    ELSE ls[1] \o <<NL>> \o join(Tail(ls))

(***************************************************************************)
(* Hash computation                                                        *)
(***************************************************************************)
HASHLINE_ALPHABET ==
    <<"Z", "P", "M", "Q", "V", "R", "W", "S", "N", "K", "T", "X", "J", "B", "Y", "H">>

IsHashChar(c) == \E i \in 1..Len(HASHLINE_ALPHABET) : HASHLINE_ALPHABET[i] = c

\* HASHLINE_DICT[index] for index in 0..255: the high nibble, then the low one
HASHLINE_DICT(index) ==
    <<HASHLINE_ALPHABET[(index \div 16) + 1], HASHLINE_ALPHABET[(index % 16) + 1]>>

\* the character "\0" that computeLineHash puts between seed and content
NUL == "NUL"

CharTable ==
    <<NUL, "\t", "\n", "\r", " ", "#", "+", ":", ">", "|", "{", "}", "\\",
      "0", "1", "2", "3", "4", "5", "6", "7", "8", "9",
      "a", "b", "c", "d", "e", "x", "y", "z", "n",
      "A", "B", "L", "I", "N", "E", "R", "S", "X", "Y",
      "Z", "P", "M", "Q", "V", "W", "K", "T", "J", "H">>

CharCode(c) == CHOOSE i \in 1..Len(CharTable) : CharTable[i] = c

RECURSIVE DigestFold(_, _)
DigestFold(h, s) ==
    IF Len(s) = 0 THEN h
    ELSE DigestFold((h * 31 + CharCode(Head(s))) % 256, Tail(s))

\* createHash("md5").update(s).digest().readUInt32LE(0) % 256: the digest's
\* first byte.  md5 is the platform's; the model needs only that it is a fixed
\* function of its input with 256 values, which this fold is.
md5Mod256(s) == DigestFold(7, s)

RECURSIVE normalizeLineContent(_)
\* content.replace(/\s+/g, "")
normalizeLineContent(s) ==
    IF Len(s) = 0 THEN <<>>
    ELSE IF IsSpace(Head(s)) THEN normalizeLineContent(Tail(s))
    ELSE <<Head(s)>> \o normalizeLineContent(Tail(s))

\* mutant of hasSignificantContent: no content counts as significant
hasSignificantContentNever(stripped) == FALSE

hasSignificantContent(stripped) ==
    \E i \in 1..Len(stripped) : IsLetterOrNumber(stripped[i])

computeLineHash(lineNumber, text) ==
    LET stripped == normalizeLineContent(text)
        seed == IF hasSignificantContent(stripped) THEN 0 ELSE lineNumber
    IN  HASHLINE_DICT(md5Mod256(NatToString(seed) \o <<NUL>> \o stripped))

formatHashLine(lineNumber, text) ==
    NatToString(lineNumber) \o <<"#">> \o computeLineHash(lineNumber, text)
        \o <<":">> \o text

(***************************************************************************)
(* References                                                              *)
(***************************************************************************)
\* ref.match(/^([0-9]+)#([ZPMQVRWSNKTXJBYH]{2})$/)
MatchesRefPattern(ref) ==
    /\ Len(ref) >= 4
    /\ ref[Len(ref) - 2] = "#"
    /\ IsHashChar(ref[Len(ref) - 1])
    /\ IsHashChar(ref[Len(ref)])
    /\ \A i \in 1..(Len(ref) - 3) : IsDigit(ref[i])

\* ok = FALSE stands for the thrown "Invalid line reference format" error
parseLineRef(ref) ==
    IF MatchesRefPattern(ref)
    THEN [ok |-> TRUE,
          line |-> parseInt(SubSeq(ref, 1, Len(ref) - 3)),
          hash |-> SubSeq(ref, Len(ref) - 1, Len(ref))]
    ELSE [ok |-> FALSE, line |-> 0, hash |-> <<>>]

\* the reference a reader of the hashline dump writes: `${line}#${hash}`
FormatRef(line, hash) == NatToString(line) \o <<"#">> \o hash

\* the reference the read tool prints for line n of ls
SelfRef(ls, n) == FormatRef(n, computeLineHash(n, ls[n]))

\* validateLineRef(lines, ref): "ok", or the kind of the error it throws
validateLineRef(ls, ref) ==
    LET p == parseLineRef(ref)
    IN  IF ~p.ok THEN "InvalidReferenceFormat"
        ELSE IF p.line < 1 \/ p.line > Len(ls) THEN "OutOfBounds"
        ELSE IF computeLineHash(p.line, ls[p.line]) # p.hash THEN "HashMismatch"
        ELSE "ok"

\* mutant of checkLineRef: the line is hashed under its array index, one
\* less than its line number
checkLineRefZeroBased(ls, ref) ==
    LET p == parseLineRef(ref)
        none == [kind |-> "InvalidReferenceFormat", ref |-> ref, line |-> 0,
                 expectedHash |-> <<>>, currentHash |-> <<>>, content |-> <<>>]
    IN  IF ~p.ok THEN none
        ELSE IF p.line < 1 \/ p.line > Len(ls)
        THEN [none EXCEPT !.kind = "OutOfBounds", !.line = p.line]
        ELSE LET currentHash == computeLineHash(p.line - 1, ls[p.line])
                 m == [kind |-> "HashMismatch", ref |-> ref, line |-> p.line,
                       expectedHash |-> p.hash, currentHash |-> currentHash,
                       content |-> ls[p.line]]
             IN  IF currentHash # p.hash THEN m ELSE [m EXCEPT !.kind = "ok"]

\* one round of validateLineRefs' for-of loop on ref: kind "ok" (nothing
\* happens), "InvalidReferenceFormat" or "OutOfBounds" (thrown at once), or
\* "HashMismatch": the record pushed onto mismatches
checkLineRef(ls, ref) ==
    LET p == parseLineRef(ref)
        none == [kind |-> "InvalidReferenceFormat", ref |-> ref, line |-> 0,
                 expectedHash |-> <<>>, currentHash |-> <<>>, content |-> <<>>]
    IN  IF ~p.ok THEN none
        ELSE IF p.line < 1 \/ p.line > Len(ls)
        THEN [none EXCEPT !.kind = "OutOfBounds", !.line = p.line]
        ELSE LET currentHash == computeLineHash(p.line, ls[p.line])
                 m == [kind |-> "HashMismatch", ref |-> ref, line |-> p.line,
                       expectedHash |-> p.hash, currentHash |-> currentHash,
                       content |-> ls[p.line]]
             IN  IF currentHash # p.hash THEN m ELSE [m EXCEPT !.kind = "ok"]

(***************************************************************************)
(* Edits                                                                   *)
(***************************************************************************)
\* A HashlineEdit: one record shape for the eight variants, the fields a
\* variant does not have being Undefined.
Edit(type, line, start_line, end_line, after_line, before_line, text) ==
    [type |-> type, line |-> line, start_line |-> start_line,
     end_line |-> end_line, after_line |-> after_line,
     before_line |-> before_line, text |-> text]

SetLineEdit(line, text) ==
    Edit("set_line", line, Undefined, Undefined, Undefined, Undefined, text)
ReplaceLinesEdit(start_line, end_line, text) ==
    Edit("replace_lines", Undefined, start_line, end_line, Undefined, Undefined, text)
ReplaceEdit(start_line, end_line, text) ==
    Edit("replace", Undefined, start_line, end_line, Undefined, Undefined, text)
InsertAfterEdit(line, text) ==
    Edit("insert_after", line, Undefined, Undefined, Undefined, Undefined, text)
InsertBeforeEdit(line, text) ==
    Edit("insert_before", line, Undefined, Undefined, Undefined, Undefined, text)
InsertBetweenEdit(after_line, before_line, text) ==
    Edit("insert_between", Undefined, Undefined, Undefined, after_line, before_line, text)
AppendEdit(text) ==
    Edit("append", Undefined, Undefined, Undefined, Undefined, Undefined, text)
PrependEdit(text) ==
    Edit("prepend", Undefined, Undefined, Undefined, Undefined, Undefined, text)

RECURSIVE unescapeNewlines(_)
\* text.replace(/\\n/g, "\n")
unescapeNewlines(s) ==
    IF Len(s) = 0 THEN <<>>
    ELSE IF Len(s) >= 2 /\ s[1] = BACKSLASH /\ s[2] = "n"
    THEN <<NL>> \o unescapeNewlines(SubSeq(s, 3, Len(s)))
    ELSE <<Head(s)>> \o unescapeNewlines(Tail(s))

\* Number.MAX_SAFE_INTEGER is 2^53 - 1; TLC's integers have 32 bits, and the
\* sort only compares it with line numbers
MAX_SAFE_INTEGER == 2147483647

getEditLineNumber(edit) ==
    CASE edit.type = "set_line" -> parseLineRef(edit.line).line
      [] edit.type = "replace_lines" -> parseLineRef(edit.end_line).line
      [] edit.type = "replace" -> parseLineRef(edit.end_line).line
      [] edit.type = "insert_after" -> parseLineRef(edit.line).line
      [] edit.type = "insert_before" -> parseLineRef(edit.line).line
      [] edit.type = "insert_between" -> parseLineRef(edit.before_line).line
      [] edit.type = "append" -> MAX_SAFE_INTEGER
      [] edit.type = "prepend" -> 0

\* the references one edit contributes to collectLineRefs, in push order
editLineRefs(edit) ==
    CASE edit.type = "set_line" -> <<edit.line>>
      [] edit.type = "replace_lines" -> <<edit.start_line, edit.end_line>>
      [] edit.type = "replace" -> <<edit.start_line, edit.end_line>>
      [] edit.type = "insert_after" -> <<edit.line>>
      [] edit.type = "insert_before" -> <<edit.line>>
      [] edit.type = "insert_between" -> <<edit.after_line, edit.before_line>>
      [] edit.type = "append" -> <<>>
      [] edit.type = "prepend" -> <<>>

RECURSIVE collectLineRefs(_)
collectLineRefs(es) ==
    IF Len(es) = 0 THEN <<>>
    ELSE editLineRefs(Head(es)) \o collectLineRefs(Tail(es))

\* the comparator of the sort: getEditLineNumber(b) - getEditLineNumber(a)
compareEdits(a, b) == getEditLineNumber(b) - getEditLineNumber(a)

RECURSIVE insertSorted(_, _)
\* e placed behind every element of the sorted sequence that does not compare
\* after it: Array.prototype.sort is stable
insertSorted(sorted, e) ==
    IF Len(sorted) = 0 THEN <<e>>
    ELSE IF compareEdits(Head(sorted), e) <= 0
    THEN <<Head(sorted)>> \o insertSorted(Tail(sorted), e)
    ELSE <<e>> \o sorted

RECURSIVE sortFrom(_, _)
sortFrom(sorted, es) ==
    IF Len(es) = 0 THEN sorted
    ELSE sortFrom(insertSorted(sorted, Head(es)), Tail(es))

\* mutant of sortEdits: the batch is applied in submission order
sortEditsNotSorted(es) == es

\* [...edits].sort((a, b) => getEditLineNumber(b) - getEditLineNumber(a))
sortEdits(es) == sortFrom(<<>>, es)

Min(a, b) == IF a < b THEN a ELSE b
Max(a, b) == IF a > b THEN a ELSE b

\* ls.splice(start, deleteCount, ...items), as Array.prototype.splice clamps
\* its arguments
splice(ls, start, deleteCount, items) ==
    LET s == IF start < 0 THEN Max(Len(ls) + start, 0) ELSE Min(start, Len(ls))
        d == Min(Max(deleteCount, 0), Len(ls) - s)
    IN  SubSeq(ls, 1, s) \o items \o SubSeq(ls, s + d + 1, Len(ls))

\* ls[index] = value for a 0-based index: past the end the array grows, and
\* the elements in between are holes, which join renders as empty strings
assignIndex(ls, index, value) ==
    IF index < Len(ls) THEN [ls EXCEPT ![index + 1] = value]
    ELSE ls \o [i \in 1..(index - Len(ls)) |-> <<>>] \o <<value>>

\* mutant of replacementLines: the empty text is split like any other
replacementLinesAlwaysSplit(text) == split(unescapeNewlines(text))

\* unescapedText === "" ? [] : unescapedText.split("\n")
replacementLines(text) ==
    LET unescapedText == unescapeNewlines(text)
    IN  IF unescapedText = <<>> THEN <<>> ELSE split(unescapedText)

\* mutant of isAdjacent: any before_line below after_line in the file passes
isAdjacentOrdered(afterLine, beforeLine) == beforeLine > afterLine

\* the negation of insert_between's guard beforeLine !== afterLine + 1
isAdjacent(afterLine, beforeLine) == beforeLine = afterLine + 1

\* lines.push(...items)
push(ls, items) == ls \o items

\* mutant of unshift: the items go to the end of the array
unshiftAtEnd(ls, items) == ls \o items

\* lines.unshift(...items)
unshift(ls, items) == items \o ls

\* one round of applyHashlineEdits' apply loop: the case of the switch for
\* edit, run on the line array ls.  error "none" and the new array, or the
\* error thrown and the array as the throw leaves it.
applyEdit(ls, edit) ==
    LET done(newLs) == [error |-> "none", lines |-> newLs]
        throw(kind) == [error |-> kind, lines |-> ls]
        newLines == split(unescapeNewlines(edit.text))
    IN  CASE edit.type = "set_line" ->
                done(assignIndex(ls, parseLineRef(edit.line).line - 1,
                                 unescapeNewlines(edit.text)))
          [] edit.type \in {"replace_lines", "replace"} ->
                LET startLine == parseLineRef(edit.start_line).line
                    endLine == parseLineRef(edit.end_line).line
                IN  IF startLine > endLine THEN throw("InvalidRange")
                    ELSE done(splice(ls, startLine - 1, endLine - startLine + 1,
                                     replacementLines(edit.text)))
          [] edit.type = "insert_after" ->
                done(splice(ls, parseLineRef(edit.line).line, 0, newLines))
          [] edit.type = "insert_before" ->
                done(splice(ls, parseLineRef(edit.line).line - 1, 0, newLines))
          [] edit.type = "insert_between" ->
                LET afterLine == parseLineRef(edit.after_line).line
                    beforeLine == parseLineRef(edit.before_line).line
                IN  IF ~isAdjacent(afterLine, beforeLine) THEN throw("NotAdjacent")
                    ELSE done(splice(ls, afterLine, 0, newLines))
          [] edit.type = "append" -> done(push(ls, newLines))
          [] edit.type = "prepend" -> done(unshift(ls, newLines))

RECURSIVE validateFrom(_, _, _)
\* validateLineRefs' loop from the references rs on, with the mismatches
\* gathered so far; the result is what the function does in the end
validateFrom(ls, rs, found) ==
    IF Len(rs) = 0
    THEN [kind |-> IF Len(found) > 0 THEN "HashMismatch" ELSE "ok",
          mismatches |-> found]
    ELSE LET c == checkLineRef(ls, Head(rs))
         IN  IF c.kind \in {"InvalidReferenceFormat", "OutOfBounds"}
             THEN [kind |-> c.kind, mismatches |-> <<>>]
             ELSE validateFrom(ls, Tail(rs),
                               IF c.kind = "HashMismatch" THEN Append(found, c)
                               ELSE found)

\* validateLineRefs(lines, refs): kind "ok", or the error thrown; a
\* "HashMismatch" error lists mismatches
validateLineRefs(ls, rs) == validateFrom(ls, rs, <<>>)

RECURSIVE applyFrom(_, _)
\* the apply loop over the sorted edits es; error "none" and the final array,
\* or the error that ends the loop
applyFrom(ls, es) ==
    IF Len(es) = 0 THEN [error |-> "none", lines |-> ls]
    ELSE LET r == applyEdit(ls, Head(es))
         IN  IF r.error # "none" THEN r ELSE applyFrom(r.lines, Tail(es))

\* applyHashlineEdits(content, edits) as one call: error "none" and the
\* returned string, or the kind of the error thrown (value is then unused)
applyHashlineEdits(text, es) ==
    IF Len(es) = 0 THEN [error |-> "none", value |-> text]
    ELSE LET ls == split(text)
             rs == collectLineRefs(es)
             v == IF Len(rs) > 0 THEN validateLineRefs(ls, rs)
                  ELSE [kind |-> "ok", mismatches |-> <<>>]
         IN  IF v.kind # "ok" THEN [error |-> v.kind, value |-> <<>>]
             ELSE LET r == applyFrom(ls, sortEdits(es))
                  IN  IF r.error # "none" THEN [error |-> r.error, value |-> <<>>]
                      ELSE [error |-> "none", value |-> join(r.lines)]

(***************************************************************************)
(* The edit tool: normalization, deduplication, line endings               *)
(***************************************************************************)
\* a raw edit of the given type with every optional field absent
RawHashlineEdit(type) ==
    [type |-> type, line |-> Undefined, start_line |-> Undefined,
     end_line |-> Undefined, after_line |-> Undefined,
     before_line |-> Undefined, text |-> Undefined, content |-> Undefined]

\* mutant of getText: content is tried before text
getTextContentFirst(raw) ==
    IF raw.content # Undefined THEN raw.content
    ELSE IF raw.text # Undefined THEN raw.text
    ELSE <<>>

\* mutant of getText: no "" for an edit that has neither field
getTextNoDefault(raw) ==
    IF raw.text # Undefined THEN raw.text ELSE raw.content

\* raw.text ?? raw.content ?? ""
getText(raw) ==
    IF raw.text # Undefined THEN raw.text
    ELSE IF raw.content # Undefined THEN raw.content
    ELSE <<>>

RECURSIVE getLineRef(_, _)
\* the first of the fields that holds a non-empty string; Undefined stands
\* for the "Missing line reference" error thrown when none does
getLineRef(raw, fields) ==
    IF Len(fields) = 0 THEN Undefined
    ELSE LET val == raw[Head(fields)]
         IN  IF val # Undefined /\ Len(val) > 0 THEN val
             ELSE getLineRef(raw, Tail(fields))

\* the refs of a typed edit all found, or the error of the first one missing
Normalized(edit) ==
    IF \E r \in {edit.line, edit.start_line, edit.end_line,
                 edit.after_line, edit.before_line} :
           r # Undefined /\ Len(r) = 0
    THEN [error |-> "MissingField", edit |-> edit]
    ELSE [error |-> "none", edit |-> edit]

\* getLineRef's result as a field value: the empty string marks the throw
RefOrThrow(raw, fields) ==
    LET r == getLineRef(raw, fields) IN IF r = Undefined THEN <<>> ELSE r

\* the body of the map callback of normalizeHashlineEdits
normalizeEdit(raw) ==
    CASE raw.type = "set_line" ->
           Normalized(SetLineEdit(RefOrThrow(raw, <<"line", "start_line">>),
                                  getText(raw)))
      [] raw.type = "replace_lines" ->
           Normalized(ReplaceLinesEdit(RefOrThrow(raw, <<"start_line", "line">>),
                                       RefOrThrow(raw, <<"end_line">>),
                                       getText(raw)))
      [] raw.type = "insert_after" ->
           Normalized(InsertAfterEdit(
               RefOrThrow(raw, <<"line", "after_line", "end_line", "start_line">>),
               getText(raw)))
      [] raw.type = "insert_before" ->
           Normalized(InsertBeforeEdit(
               RefOrThrow(raw, <<"line", "before_line", "start_line">>),
               getText(raw)))
      [] raw.type = "insert_between" ->
           Normalized(InsertBetweenEdit(
               RefOrThrow(raw, <<"after_line", "start_line">>),
               RefOrThrow(raw, <<"before_line", "end_line">>),
               getText(raw)))
      [] raw.type = "replace" ->
           Normalized(ReplaceEdit(RefOrThrow(raw, <<"start_line", "line">>),
                                  RefOrThrow(raw, <<"end_line">>),
                                  getText(raw)))
      [] raw.type = "append" -> Normalized(AppendEdit(getText(raw)))
      [] raw.type = "prepend" -> Normalized(PrependEdit(getText(raw)))
      [] OTHER -> [error |-> "UnknownEditType", edit |-> AppendEdit(<<>>)]

RECURSIVE normalizeFrom(_, _)
normalizeFrom(raws, done) ==
    IF Len(raws) = 0 THEN [error |-> "none", edits |-> done]
    ELSE LET n == normalizeEdit(Head(raws))
         IN  IF n.error # "none" THEN [error |-> n.error, edits |-> <<>>]
             ELSE normalizeFrom(Tail(raws), Append(done, n.edit))

\* normalizeHashlineEdits(rawEdits): error "none" and the typed edits, or the
\* error the first offending raw edit throws
normalizeHashlineEdits(raws) == normalizeFrom(raws, <<>>)

\* the key of the first dedupeEdits of edit-deduplication.ts:
\* JSON.stringify(edit), which two typed edits share exactly when they have
\* the same fields and values
dedupeKey(edit) == edit

RECURSIVE dedupeFrom(_, _, _, _)
dedupeFrom(es, seen, unique, removed) ==
    IF Len(es) = 0 THEN [edits |-> unique, duplicatesRemoved |-> removed]
    ELSE IF dedupeKey(Head(es)) \in seen
    THEN dedupeFrom(Tail(es), seen, unique, removed + 1)
    ELSE dedupeFrom(Tail(es), seen \cup {dedupeKey(Head(es))},
                    Append(unique, Head(es)), removed)

\* dedupeEdits as first written, keyed on the serialized edit
dedupeEditsJson(es) == dedupeFrom(es, {}, <<>>, 0)

RECURSIVE skipSpaces(_, _)
\* the position after the run of \s that starts at position i of s
skipSpaces(s, i) ==
    IF i <= Len(s) /\ IsSpace(s[i]) THEN skipSpaces(s, i + 1) ELSE i

RECURSIVE skipDigits(_, _)
\* the position after the run of \d that starts at position i of s
skipDigits(s, i) ==
    IF i <= Len(s) /\ IsDigit(s[i]) THEN skipDigits(s, i + 1) ELSE i

\* line[i], or a token no pattern matches past the end
charAt(line, i) == IF i >= 1 /\ i <= Len(line) THEN line[i] ELSE "EOL"

\* HASHLINE_PREFIX_RE, /^\s*(?:>>>|>>)?\s*\d+\s*#\s*[ZPMQVRWSNKTXJBYH]{2}[:|]/,
\* piece by piece: each operator matches the rest of the pattern from
\* position p on and gives the length of the whole match, 0 if there is none
prefixFromId(line, p) ==
    IF /\ IsHashChar(charAt(line, p))
       /\ IsHashChar(charAt(line, p + 1))
       /\ charAt(line, p + 2) \in {":", "|"}
    THEN p + 2
    ELSE 0

prefixFromHash(line, p) ==
    IF charAt(line, p) = "#" THEN prefixFromId(line, skipSpaces(line, p + 1))
    ELSE 0

prefixFromDigits(line, p) ==
    IF skipDigits(line, p) > p
    THEN prefixFromHash(line, skipSpaces(line, skipDigits(line, p)))
    ELSE 0

prefixFromMarker(line, p) ==
    prefixFromDigits(line, skipSpaces(line,
        IF charAt(line, p) = ">" /\ charAt(line, p + 1) = ">"
        THEN (IF charAt(line, p + 2) = ">" THEN p + 3 ELSE p + 2)
        ELSE p))

\* the length of the match of HASHLINE_PREFIX_RE in line; 0 if none
hashlinePrefixLength(line) == prefixFromMarker(line, skipSpaces(line, 1))

\* HASHLINE_PREFIX_RE.test(line)
HASHLINE_PREFIX_RE(line) == hashlinePrefixLength(line) > 0

\* DIFF_PLUS_RE.test(line): /^[+](?![+])/
DIFF_PLUS_RE(line) ==
    /\ Len(line) >= 1
    /\ line[1] = "+"
    /\ ~(Len(line) >= 2 /\ line[2] = "+")

\* the lines.map of stripLinePrefixes
stripPrefixesMap(ls, stripHash, stripPlus) ==
    [i \in 1..Len(ls) |->
        IF stripHash
        THEN SubSeq(ls[i], hashlinePrefixLength(ls[i]) + 1, Len(ls[i]))
        ELSE IF stripPlus /\ DIFF_PLUS_RE(ls[i]) THEN Tail(ls[i])
        ELSE ls[i]]

\* mutant of stripPrefixesCounted: a prefix is stripped only when more than
\* half of the non-empty lines carry it
stripPrefixesStrictMajority(ls, nonEmpty, hashPrefixCount, diffPlusCount) ==
    IF nonEmpty = 0 THEN ls
    ELSE stripPrefixesMap(
             ls,
             hashPrefixCount > 0 /\ 2 * hashPrefixCount > nonEmpty,
             /\ ~(hashPrefixCount > 0 /\ 2 * hashPrefixCount > nonEmpty)
             /\ diffPlusCount > 0
             /\ 2 * diffPlusCount > nonEmpty)

\* stripLinePrefixes from its three counters on
stripPrefixesCounted(ls, nonEmpty, hashPrefixCount, diffPlusCount) ==
    IF nonEmpty = 0 THEN ls
    ELSE stripPrefixesMap(
             ls,
             hashPrefixCount > 0 /\ 2 * hashPrefixCount >= nonEmpty,
             /\ ~(hashPrefixCount > 0 /\ 2 * hashPrefixCount >= nonEmpty)
             /\ diffPlusCount > 0
             /\ 2 * diffPlusCount >= nonEmpty)

\* stripLinePrefixes(lines)
stripLinePrefixes(ls) ==
    stripPrefixesCounted(
        ls,
        Cardinality({i \in 1..Len(ls) : Len(ls[i]) > 0}),
        Cardinality({i \in 1..Len(ls) : Len(ls[i]) > 0 /\ HASHLINE_PREFIX_RE(ls[i])}),
        Cardinality({i \in 1..Len(ls) : Len(ls[i]) > 0 /\ DIFF_PLUS_RE(ls[i])}))

\* toNewLines(input) for a string input
toNewLines(input) == stripLinePrefixes(split(input))

\* normalizeEditPayload(payload)
normalizeEditPayload(payload) == join(toNewLines(unescapeNewlines(payload)))

RECURSIVE withoutSpaces(_)
withoutSpaces(s) ==
    IF Len(s) = 0 THEN <<>>
    ELSE IF IsSpace(Head(s)) THEN withoutSpaces(Tail(s))
    ELSE <<Head(s)>> \o withoutSpaces(Tail(s))

\* normalizeLineRef(ref) of hashline.js: the reference as "line#hash" with
\* the spaces around "#" and at the ends dropped; a string that is no
\* reference is handed back as it is
normalizeLineRef(ref) ==
    IF MatchesRefPattern(withoutSpaces(ref)) THEN withoutSpaces(ref) ELSE ref

\* canonicalAnchor(anchor)
canonicalAnchor(anchor) ==
    IF anchor = Undefined \/ Len(anchor) = 0 THEN <<>> ELSE normalizeLineRef(anchor)

\* the template string of a key: its parts joined with "|"
keyOf(kind, anchors, payload) ==
    <<kind>> \o <<"|">>
        \o Concat([i \in 1..Len(anchors) |-> canonicalAnchor(anchors[i]) \o <<"|">>])
        \o normalizeEditPayload(payload)

\* buildDedupeKey(edit)
buildDedupeKey(edit) ==
    CASE edit.type = "set_line" -> keyOf("set_line", <<edit.line>>, edit.text)
      [] edit.type \in {"replace_lines", "replace"} ->
           keyOf("replace", <<edit.start_line, edit.end_line>>, edit.text)
      [] edit.type = "insert_after" -> keyOf("insert_after", <<edit.line>>, edit.text)
      [] edit.type = "insert_before" -> keyOf("insert_before", <<edit.line>>, edit.text)
      [] edit.type = "insert_between" ->
           keyOf("insert_between", <<edit.after_line, edit.before_line>>, edit.text)
      [] edit.type = "append" -> keyOf("append", <<>>, edit.text)
      [] edit.type = "prepend" -> keyOf("prepend", <<>>, edit.text)

RECURSIVE dedupeByKeyFrom(_, _, _, _)
dedupeByKeyFrom(es, seen, unique, removed) ==
    IF Len(es) = 0 THEN [edits |-> unique, duplicatesRemoved |-> removed]
    ELSE IF buildDedupeKey(Head(es)) \in seen
    THEN dedupeByKeyFrom(Tail(es), seen, unique, removed + 1)
    ELSE dedupeByKeyFrom(Tail(es), seen \cup {buildDedupeKey(Head(es))},
                         Append(unique, Head(es)), removed)

\* mutant of dedupeEdits: every edit is kept
dedupeEditsKeepAll(es) == [edits |-> es, duplicatesRemoved |-> 0]

\* dedupeEdits(edits), keyed on buildDedupeKey
dedupeEdits(es) == dedupeByKeyFrom(es, {}, <<>>, 0)

\* the character U+FEFF
BOM == "BOM"
CR == "\r"

\* stripBom(content)
stripBom(s) ==
    IF Len(s) > 0 /\ s[1] = BOM THEN [bom |-> <<BOM>>, text |-> Tail(s)]
    ELSE [bom |-> <<>>, text |-> s]

\* content.indexOf(needle) as a 1-based position, 0 when absent
indexOf(s, needle) ==
    LET hits == {i \in 1..(Len(s) - Len(needle) + 1) :
                     SubSeq(s, i, i + Len(needle) - 1) = needle}
    IN  IF hits = {} THEN 0 ELSE CHOOSE i \in hits : \A j \in hits : i <= j

\* detectLineEnding(content): "\r\n" or "\n"
detectLineEnding(s) ==
    LET crlfIdx == indexOf(s, <<CR, NL>>)
        lfIdx == indexOf(s, <<NL>>)
    IN  IF lfIdx = 0 THEN <<NL>>
        ELSE IF crlfIdx = 0 THEN <<NL>>
        ELSE IF crlfIdx < lfIdx THEN <<CR, NL>> ELSE <<NL>>

RECURSIVE normalizeToLF(_)
\* text.replace(/\r\n/g, "\n").replace(/\r/g, "\n")
normalizeToLF(s) ==
    IF Len(s) = 0 THEN <<>>
    ELSE IF Len(s) >= 2 /\ s[1] = CR /\ s[2] = NL
    THEN <<NL>> \o normalizeToLF(SubSeq(s, 3, Len(s)))
    ELSE IF s[1] = CR THEN <<NL>> \o normalizeToLF(Tail(s))
    ELSE <<s[1]>> \o normalizeToLF(Tail(s))

RECURSIVE restoreLineEndings(_, _)
\* ending === "\r\n" ? text.replace(/\n/g, "\r\n") : text
restoreLineEndings(s, ending) ==
    IF ending # <<CR, NL>> \/ Len(s) = 0 THEN s
    ELSE IF s[1] = NL THEN <<CR, NL>> \o restoreLineEndings(Tail(s), ending)
    ELSE <<s[1]>> \o restoreLineEndings(Tail(s), ending)

(***************************************************************************)
(* Inputs of the model                                                     *)
(***************************************************************************)
\* the longest batch
MaxEdits == 2

\* the file the batches are written against: a significant line, a
\* punctuation-only line and a last line
SampleLines == << <<"a">>, <<"}">>, <<"b">> >>

SampleContent == join(SampleLines)

\* the reference to line n of the sample as the read tool prints it
GoodRef(n) == FormatRef(n, computeLineHash(n, SampleLines[n]))

\* a reference to line n of the sample taken before that line changed: its
\* hash is the one of another content
StaleRef(n) == FormatRef(n, computeLineHash(n, SampleLines[n] \o <<"x">>))

\* a reference to a line the file does not have
OutOfRangeRef(n) == FormatRef(n, HASHLINE_DICT(0))

\* a placeholder left where a reference belongs
MalformedRef == <<"L", "I", "N", "E", "#", "Z", "P">>

TextX == <<"X">>
TextY == <<"Y">>
TextYZ == <<"Y", BACKSLASH, "n", "Z">>
NoText == <<>>

SampleLineNumbers == 1..Len(SampleLines)

PastEnd == Len(SampleLines) + 1

EditPool ==
    {SetLineEdit(GoodRef(n), TextX) : n \in SampleLineNumbers}
    \cup {SetLineEdit(GoodRef(2), TextYZ),
          SetLineEdit(StaleRef(1), TextX),
          SetLineEdit(OutOfRangeRef(PastEnd), TextX),
          SetLineEdit(MalformedRef, TextX)}
    \cup {ReplaceLinesEdit(GoodRef(1), GoodRef(1), TextX),
          ReplaceLinesEdit(GoodRef(1), GoodRef(2), TextX),
          ReplaceLinesEdit(GoodRef(2), GoodRef(3), TextX),
          ReplaceLinesEdit(GoodRef(1), GoodRef(3), TextX),
          ReplaceLinesEdit(GoodRef(3), GoodRef(1), TextX),
          ReplaceLinesEdit(GoodRef(2), GoodRef(2), NoText),
          ReplaceLinesEdit(StaleRef(1), StaleRef(2), TextX),
          ReplaceLinesEdit(StaleRef(1), OutOfRangeRef(PastEnd), TextX)}
    \cup {ReplaceEdit(GoodRef(1), GoodRef(2), TextYZ),
          ReplaceEdit(GoodRef(2), GoodRef(3), NoText)}
    \cup {InsertAfterEdit(GoodRef(1), TextX),
          InsertAfterEdit(GoodRef(2), TextX),
          InsertAfterEdit(GoodRef(2), TextYZ),
          InsertAfterEdit(StaleRef(2), TextX)}
    \cup {InsertBeforeEdit(GoodRef(2), TextY),
          InsertBeforeEdit(GoodRef(2), TextX),
          InsertBeforeEdit(GoodRef(3), TextY),
          InsertBeforeEdit(OutOfRangeRef(0), TextY)}
    \cup {InsertBetweenEdit(GoodRef(1), GoodRef(2), TextX),
          InsertBetweenEdit(GoodRef(2), GoodRef(3), TextY),
          InsertBetweenEdit(GoodRef(1), GoodRef(3), TextX)}
    \cup {AppendEdit(TextX), AppendEdit(TextY), PrependEdit(TextX), PrependEdit(TextY)}

\* the batches of at most MaxEdits edits of the pool
Batches == UNION {[1..n -> EditPool] : n \in 0..MaxEdits}

\* how often another writer changes the file during one call
MaxExternalWrites == 1

\* what the file system holds for a path that does not exist
Missing == <<"ENOENT">>

\* the sample as a CRLF file and as a file with a byte order mark
SampleContentCRLF == restoreLineEndings(SampleContent, <<CR, NL>>)
SampleContentBOM == <<BOM>> \o SampleContent

\* the sample after another writer rewrote line 1 and dropped line 3
ChangedContent == join(<< <<"c">>, <<"}">> >>)

InitialDisks == {SampleContent, SampleContentCRLF, SampleContentBOM, Missing}

ExternalContents == {ChangedContent, Missing}

RawSetLine(ref, text) ==
    [RawHashlineEdit("set_line") EXCEPT !.line = ref, !.text = text]

\* a two-line text whose line break is written as carriage return, newline
TextCRLF == <<"Y", CR, NL, "Z">>

\* raw edits as a model sends them: canonical and alias field names, a
\* missing field, an unknown type, bad and stale references, edits that
\* fail only while they are applied, and a text with a CRLF line break
RawEditPool ==
    {RawSetLine(GoodRef(1), TextX),
     [RawHashlineEdit("set_line") EXCEPT !.start_line = GoodRef(1),
                                         !.content = TextX],
     RawSetLine(GoodRef(2), SampleLines[2]),
     [RawHashlineEdit("set_line") EXCEPT !.text = TextX],
     [RawHashlineEdit("delete") EXCEPT !.line = GoodRef(1)],
     RawSetLine(MalformedRef, TextX),
     RawSetLine(OutOfRangeRef(PastEnd), TextX),
     RawSetLine(StaleRef(1), TextX),
     [RawHashlineEdit("replace_lines") EXCEPT !.start_line = GoodRef(3),
                                              !.end_line = GoodRef(1),
                                              !.text = TextX],
     [RawHashlineEdit("insert_between") EXCEPT !.after_line = GoodRef(1),
                                               !.before_line = GoodRef(3),
                                               !.text = TextX],
     [RawHashlineEdit("insert_after") EXCEPT !.line = GoodRef(3),
                                             !.text = TextYZ],
     [RawHashlineEdit("append") EXCEPT !.text = TextY],
     RawSetLine(GoodRef(1), TextCRLF)}

RawBatches == UNION {[1..n -> RawEditPool] : n \in 0..MaxEdits}

NoLocals ==
    [normalized |-> FALSE, uniqueEdits |-> <<>>, duplicatesRemoved |-> 0,
     read |-> FALSE, rawContent |-> <<>>, bom |-> <<>>,
     originalEnding |-> <<NL>>, normalizedContent |-> <<>>,
     applied |-> FALSE, newContent |-> <<>>, finalContent |-> <<>>]

PendingPromise == [state |-> "pending", result |-> "none"]

\* resolve(result) and reject(error): a settled promise stays as it is
resolve(p, result) ==
    IF p.state = "pending" THEN [state |-> "resolved", result |-> result] ELSE p
reject(p, error) ==
    IF p.state = "pending" THEN [state |-> "rejected", result |-> error] ELSE p

OpsCall(op, data) == [op |-> op, data |-> data]

\* the edit tool before execute is called
NoToolCall ==
    /\ disk = SampleContent
    /\ rawEdits = <<>>
    /\ signal = "none"
    /\ listening = FALSE
    /\ aborted = FALSE
    /\ tpc = "start"
    /\ locals = NoLocals
    /\ opsLog = <<>>
    /\ promise = PendingPromise
    /\ externalWrites = 0

(***************************************************************************)
(* applyHashlineEdits, step by step                                        *)
(***************************************************************************)
Pending == [kind |-> "pending", error |-> "none", value |-> <<>>, mismatches |-> <<>>]

Returned(text) == [Pending EXCEPT !.kind = "returned", !.value = text]

Thrown(kind, found) ==
    [Pending EXCEPT !.kind = "thrown", !.error = kind, !.mismatches = found]

InitApply ==
    /\ content = SampleContent
    /\ edits \in Batches
    /\ lines = <<>>
    /\ refs = <<>>
    /\ refIdx = 1
    /\ mismatches = <<>>
    /\ sortedEdits = <<>>
    /\ editIdx = 1
    /\ applied = <<>>
    /\ pc = "call"
    /\ outcome = Pending
    /\ NoToolCall

\* the call up to the validation loop: the empty batch returns at once; with
\* no reference to validate the edits are sorted right away
Enter ==
    /\ pc = "call"
    /\ IF Len(edits) = 0
       THEN /\ pc' = "returned"
            /\ outcome' = Returned(content)
            /\ UNCHANGED <<lines, refs, sortedEdits>>
       ELSE /\ lines' = split(content)
            /\ refs' = collectLineRefs(edits)
            /\ IF Len(refs') > 0
               THEN pc' = "validate" /\ UNCHANGED sortedEdits
               ELSE pc' = "apply" /\ sortedEdits' = sortEdits(edits)
            /\ UNCHANGED outcome
    /\ UNCHANGED <<toolVars, content, edits, refIdx, mismatches, editIdx, applied>>

\* mutant of ValidateRef: the first mismatch is thrown at once, as
\* validateLineRef does
ValidateRefFailFast ==
    /\ pc = "validate"
    /\ refIdx <= Len(refs)
    /\ LET c == checkLineRef(lines, refs[refIdx])
       IN  IF c.kind # "ok"
           THEN /\ pc' = "thrown"
                /\ outcome' = Thrown(c.kind, IF c.kind = "HashMismatch"
                                             THEN <<c>> ELSE <<>>)
                /\ UNCHANGED <<refIdx, mismatches>>
           ELSE /\ refIdx' = refIdx + 1
                /\ UNCHANGED <<pc, outcome, mismatches>>
    /\ UNCHANGED <<toolVars, content, edits, lines, refs, sortedEdits, editIdx, applied>>

\* mutant of ValidateRef: an out-of-range reference met after mismatches were
\* gathered reports those mismatches
ValidateRefReportGathered ==
    /\ pc = "validate"
    /\ refIdx <= Len(refs)
    /\ LET c == checkLineRef(lines, refs[refIdx])
       IN  IF c.kind \in {"InvalidReferenceFormat", "OutOfBounds"}
           THEN /\ pc' = "thrown"
                /\ outcome' = IF c.kind = "OutOfBounds" /\ Len(mismatches) > 0
                              THEN Thrown("HashMismatch", mismatches)
                              ELSE Thrown(c.kind, <<>>)
                /\ UNCHANGED <<refIdx, mismatches>>
           ELSE /\ refIdx' = refIdx + 1
                /\ mismatches' = IF c.kind = "HashMismatch"
                                 THEN Append(mismatches, c) ELSE mismatches
                /\ UNCHANGED <<pc, outcome>>
    /\ UNCHANGED <<toolVars, content, edits, lines, refs, sortedEdits, editIdx, applied>>

\* one round of validateLineRefs' loop
ValidateRef ==
    /\ pc = "validate"
    /\ refIdx <= Len(refs)
    /\ LET c == checkLineRef(lines, refs[refIdx])
       IN  IF c.kind \in {"InvalidReferenceFormat", "OutOfBounds"}
           THEN /\ pc' = "thrown"
                /\ outcome' = Thrown(c.kind, <<>>)
                /\ UNCHANGED <<refIdx, mismatches>>
           ELSE /\ refIdx' = refIdx + 1
                /\ mismatches' = IF c.kind = "HashMismatch"
                                 THEN Append(mismatches, c) ELSE mismatches
                /\ UNCHANGED <<pc, outcome>>
    /\ UNCHANGED <<toolVars, content, edits, lines, refs, sortedEdits, editIdx, applied>>

\* mutant of ValidateEnd: the gathered mismatches are not thrown
ValidateEndIgnoreMismatches ==
    /\ pc = "validate"
    /\ refIdx > Len(refs)
    /\ pc' = "apply"
    /\ sortedEdits' = sortEdits(edits)
    /\ UNCHANGED outcome
    /\ UNCHANGED <<toolVars, content, edits, lines, refs, refIdx, mismatches, editIdx, applied>>

\* the end of validateLineRefs: the mismatches are thrown as one error, or
\* the call goes on to sort the edits
ValidateEnd ==
    /\ pc = "validate"
    /\ refIdx > Len(refs)
    /\ IF Len(mismatches) > 0
       THEN /\ pc' = "thrown"
            /\ outcome' = Thrown("HashMismatch", mismatches)
            /\ UNCHANGED sortedEdits
       ELSE /\ pc' = "apply"
            /\ sortedEdits' = sortEdits(edits)
            /\ UNCHANGED outcome
    /\ UNCHANGED <<toolVars, content, edits, lines, refs, refIdx, mismatches, editIdx, applied>>

\* mutant of ApplyEdit: an edit that throws ends the call with the content as
\* edited so far
ApplyEditKeepPartial ==
    /\ pc = "apply"
    /\ editIdx <= Len(sortedEdits)
    /\ LET r == applyEdit(lines, sortedEdits[editIdx])
       IN  IF r.error # "none"
           THEN /\ pc' = "returned"
                /\ outcome' = Returned(join(lines))
                /\ UNCHANGED <<lines, editIdx, applied>>
           ELSE /\ lines' = r.lines
                /\ editIdx' = editIdx + 1
                /\ applied' = Append(applied, sortedEdits[editIdx])
                /\ UNCHANGED <<pc, outcome>>
    /\ UNCHANGED <<toolVars, content, edits, refs, refIdx, mismatches, sortedEdits>>

\* one round of the apply loop
ApplyEdit ==
    /\ pc = "apply"
    /\ editIdx <= Len(sortedEdits)
    /\ LET r == applyEdit(lines, sortedEdits[editIdx])
       IN  IF r.error # "none"
           THEN /\ pc' = "thrown"
                /\ outcome' = Thrown(r.error, <<>>)
                /\ UNCHANGED <<lines, editIdx, applied>>
           ELSE /\ lines' = r.lines
                /\ editIdx' = editIdx + 1
                /\ applied' = Append(applied, sortedEdits[editIdx])
                /\ UNCHANGED <<pc, outcome>>
    /\ UNCHANGED <<toolVars, content, edits, refs, refIdx, mismatches, sortedEdits>>

\* return lines.join("\n")
Return ==
    /\ pc = "apply"
    /\ editIdx > Len(sortedEdits)
    /\ pc' = "returned"
    /\ outcome' = Returned(join(lines))
    /\ UNCHANGED <<toolVars, content, edits, lines, refs, refIdx, mismatches, sortedEdits,
                   editIdx, applied>>

NextApply == Enter \/ ValidateRef \/ ValidateEnd \/ ApplyEdit \/ Return

SpecApply == InitApply /\ [][NextApply]_vars

(***************************************************************************)
(* applyHashlineEdits on one edit written against the file as it is        *)
(***************************************************************************)
\* the longest file of the single-edit runs
MaxFileLines == 5

\* line i of those files
FileLetters == <<"a", "b", "c", "d", "e", "x", "y">>

FileLine(i) == <<FileLetters[i]>>

FileLines(n) == [i \in 1..n |-> FileLine(i)]

\* one range edit or insert_between per pair of lines of the n-line file,
\* with references that match it
SingleEdits(n) ==
    LET ref(i) == SelfRef(FileLines(n), i)
    IN  {ReplaceLinesEdit(ref(i), ref(j), t) :
             i \in 1..n, j \in 1..n, t \in {TextX, TextYZ, NoText}}
        \cup {ReplaceEdit(ref(i), ref(j), t) :
                  i \in 1..n, j \in 1..n, t \in {TextX, NoText}}
        \cup {InsertBetweenEdit(ref(i), ref(j), t) :
                  i \in 1..n, j \in 1..n, t \in {TextX, TextYZ}}

InitSingle ==
    /\ \E n \in 1..MaxFileLines :
         /\ content = join(FileLines(n))
         /\ \E e \in SingleEdits(n) : edits = <<e>>
    /\ lines = <<>>
    /\ refs = <<>>
    /\ refIdx = 1
    /\ mismatches = <<>>
    /\ sortedEdits = <<>>
    /\ editIdx = 1
    /\ applied = <<>>
    /\ pc = "call"
    /\ outcome = Pending
    /\ NoToolCall

SpecSingle == InitSingle /\ [][NextApply]_vars

(***************************************************************************)
(* The edit tool's execute, one action per await                           *)
(***************************************************************************)
Init ==
    /\ content = SampleContent
    /\ edits = <<>>
    /\ lines = <<>>
    /\ refs = <<>>
    /\ refIdx = 1
    /\ mismatches = <<>>
    /\ sortedEdits = <<>>
    /\ editIdx = 1
    /\ applied = <<>>
    /\ pc = "idle"
    /\ outcome = Pending
    /\ disk \in InitialDisks
    /\ rawEdits \in RawBatches
    /\ signal \in {"none", "armed", "fired"}
    /\ listening = FALSE
    /\ aborted = FALSE
    /\ tpc = "start"
    /\ locals = NoLocals
    /\ opsLog = <<>>
    /\ promise = PendingPromise
    /\ externalWrites = 0

\* execute up to its first await: the early abort check, the listener, and
\* the call of ops.access
Execute ==
    /\ tpc = "start"
    /\ IF signal = "fired"
       THEN /\ promise' = reject(promise, "Aborted")
            /\ tpc' = "done"
            /\ UNCHANGED <<listening, opsLog>>
       ELSE /\ listening' = (signal = "armed")
            /\ opsLog' = Append(opsLog, OpsCall("access", <<>>))
            /\ tpc' = "access"
            /\ UNCHANGED promise
    /\ UNCHANGED <<applyVars, disk, rawEdits, signal, aborted, locals, externalWrites>>

\* ops.access settles: file not found, or normalization and deduplication
\* and the call of ops.readFile
AccessDone ==
    /\ tpc = "access"
    /\ LET n == normalizeHashlineEdits(rawEdits)
           d == dedupeEdits(n.edits)
       IN  IF disk = Missing
           THEN /\ listening' = FALSE
                /\ promise' = reject(promise, "FileNotFound")
                /\ tpc' = "done"
                /\ UNCHANGED <<locals, opsLog>>
           ELSE IF aborted
           THEN /\ tpc' = "done"
                /\ UNCHANGED <<listening, promise, locals, opsLog>>
           ELSE IF n.error # "none"
           THEN /\ listening' = FALSE
                /\ promise' = reject(promise, n.error)
                /\ tpc' = "done"
                /\ UNCHANGED <<locals, opsLog>>
           ELSE IF Len(d.edits) = 0
           THEN /\ listening' = FALSE
                /\ promise' = resolve(promise, "NoEdits")
                /\ tpc' = "done"
                /\ locals' = [locals EXCEPT !.normalized = TRUE,
                                            !.uniqueEdits = d.edits,
                                            !.duplicatesRemoved = d.duplicatesRemoved]
                /\ UNCHANGED opsLog
           ELSE /\ locals' = [locals EXCEPT !.normalized = TRUE,
                                            !.uniqueEdits = d.edits,
                                            !.duplicatesRemoved = d.duplicatesRemoved]
                /\ opsLog' = Append(opsLog, OpsCall("readFile", <<>>))
                /\ tpc' = "read"
                /\ UNCHANGED <<listening, promise>>
    /\ UNCHANGED <<applyVars, disk, rawEdits, signal, aborted, externalWrites>>

\* ops.readFile settles: a read error, or the BOM and the line endings are
\* taken off what was read and applyHashlineEdits is called on it
ReadDone ==
    /\ tpc = "read"
    /\ IF disk = Missing
       THEN /\ listening' = FALSE
            /\ promise' = IF aborted THEN promise ELSE reject(promise, "ReadError")
            /\ tpc' = "done"
            /\ UNCHANGED <<locals, applyVars>>
       ELSE IF aborted
       THEN /\ tpc' = "done"
            /\ locals' = [locals EXCEPT !.read = TRUE, !.rawContent = disk]
            /\ UNCHANGED <<listening, promise, applyVars>>
       ELSE /\ locals' = [locals EXCEPT
                              !.read = TRUE,
                              !.rawContent = disk,
                              !.bom = stripBom(disk).bom,
                              !.originalEnding = detectLineEnding(stripBom(disk).text),
                              !.normalizedContent = normalizeToLF(stripBom(disk).text)]
            /\ content' = normalizeToLF(stripBom(disk).text)
            /\ edits' = locals.uniqueEdits
            /\ lines' = <<>>
            /\ refs' = <<>>
            /\ refIdx' = 1
            /\ mismatches' = <<>>
            /\ sortedEdits' = <<>>
            /\ editIdx' = 1
            /\ applied' = <<>>
            /\ pc' = "call"
            /\ outcome' = Pending
            /\ tpc' = "apply"
            /\ UNCHANGED <<listening, promise>>
    /\ UNCHANGED <<disk, rawEdits, signal, aborted, opsLog, externalWrites>>

\* mutant of Applied: content the edits left identical is written too
AppliedWriteUnchanged ==
    /\ tpc = "apply"
    /\ pc \in {"returned", "thrown"}
    /\ IF pc = "thrown"
       THEN /\ listening' = FALSE
            /\ promise' = reject(promise, outcome.error)
            /\ tpc' = "done"
            /\ UNCHANGED <<locals, opsLog>>
       ELSE /\ locals' = [locals EXCEPT
                              !.applied = TRUE,
                              !.newContent = outcome.value,
                              !.finalContent =
                                  locals.bom \o restoreLineEndings(outcome.value,
                                                                   locals.originalEnding)]
            /\ opsLog' = Append(opsLog, OpsCall("writeFile", locals'.finalContent))
            /\ tpc' = "write"
            /\ UNCHANGED <<listening, promise>>
    /\ UNCHANGED <<applyVars, disk, rawEdits, signal, aborted, externalWrites>>

\* mutant of Applied: identical content rejects the call, as the earlier
\* version of execute did
AppliedRejectUnchanged ==
    /\ tpc = "apply"
    /\ pc \in {"returned", "thrown"}
    /\ IF pc = "thrown"
       THEN /\ listening' = FALSE
            /\ promise' = reject(promise, outcome.error)
            /\ tpc' = "done"
            /\ UNCHANGED <<locals, opsLog>>
       ELSE IF locals.normalizedContent = outcome.value
       THEN /\ listening' = FALSE
            /\ promise' = reject(promise, "NoChanges")
            /\ tpc' = "done"
            /\ locals' = [locals EXCEPT !.applied = TRUE,
                                        !.newContent = outcome.value]
            /\ UNCHANGED opsLog
       ELSE /\ locals' = [locals EXCEPT
                              !.applied = TRUE,
                              !.newContent = outcome.value,
                              !.finalContent =
                                  locals.bom \o restoreLineEndings(outcome.value,
                                                                   locals.originalEnding)]
            /\ opsLog' = Append(opsLog, OpsCall("writeFile", locals'.finalContent))
            /\ tpc' = "write"
            /\ UNCHANGED <<listening, promise>>
    /\ UNCHANGED <<applyVars, disk, rawEdits, signal, aborted, externalWrites>>

\* applyHashlineEdits is back: its error rejects the call; identical content
\* is reported as a result; changed content is handed to ops.writeFile
Applied ==
    /\ tpc = "apply"
    /\ pc \in {"returned", "thrown"}
    /\ IF pc = "thrown"
       THEN /\ listening' = FALSE
            /\ promise' = reject(promise, outcome.error)
            /\ tpc' = "done"
            /\ UNCHANGED <<locals, opsLog>>
       ELSE IF locals.normalizedContent = outcome.value
       THEN /\ listening' = FALSE
            /\ promise' = resolve(promise, "NoChanges")
            /\ tpc' = "done"
            /\ locals' = [locals EXCEPT !.applied = TRUE,
                                        !.newContent = outcome.value]
            /\ UNCHANGED opsLog
       ELSE /\ locals' = [locals EXCEPT
                              !.applied = TRUE,
                              !.newContent = outcome.value,
                              !.finalContent =
                                  locals.bom \o restoreLineEndings(outcome.value,
                                                                   locals.originalEnding)]
            /\ opsLog' = Append(opsLog, OpsCall("writeFile", locals'.finalContent))
            /\ tpc' = "write"
            /\ UNCHANGED <<listening, promise>>
    /\ UNCHANGED <<applyVars, disk, rawEdits, signal, aborted, externalWrites>>

\* ops.writeFile settles: the file holds finalContent; the call reports
\* "Updated" unless it was aborted meanwhile
WriteDone ==
    /\ tpc = "write"
    /\ disk' = locals.finalContent
    /\ tpc' = "done"
    /\ IF aborted
       THEN UNCHANGED <<listening, promise>>
       ELSE /\ listening' = FALSE
            /\ promise' = resolve(promise, "Updated")
    /\ UNCHANGED <<applyVars, rawEdits, signal, aborted, locals, opsLog, externalWrites>>

\* mutant of Abort: onAbort rejects the promise and leaves the flag unset
AbortWithoutFlag ==
    /\ signal = "armed"
    /\ tpc \notin {"apply", "done"}
    /\ signal' = "fired"
    /\ IF listening
       THEN /\ promise' = reject(promise, "Aborted")
            /\ listening' = FALSE
            /\ UNCHANGED aborted
       ELSE UNCHANGED <<aborted, promise, listening>>
    /\ UNCHANGED <<applyVars, disk, rawEdits, tpc, locals, opsLog, externalWrites>>

\* the signal fires: onAbort, if still registered, runs once
Abort ==
    /\ signal = "armed"
    /\ tpc \notin {"apply", "done"}
    /\ signal' = "fired"
    /\ IF listening
       THEN /\ aborted' = TRUE
            /\ promise' = reject(promise, "Aborted")
            /\ listening' = FALSE
       ELSE UNCHANGED <<aborted, promise, listening>>
    /\ UNCHANGED <<applyVars, disk, rawEdits, tpc, locals, opsLog, externalWrites>>

\* another writer rewrites or removes the file while the call is in flight
ExternalWrite ==
    /\ tpc \in {"access", "read", "write"}
    /\ externalWrites < MaxExternalWrites
    /\ \E c \in ExternalContents \ {disk} : disk' = c
    /\ externalWrites' = externalWrites + 1
    /\ UNCHANGED <<applyVars, rawEdits, signal, listening, aborted, tpc, locals,
                   opsLog, promise>>

Next ==
    \/ Execute \/ AccessDone \/ ReadDone
    \/ Enter \/ ValidateRef \/ ValidateEnd \/ ApplyEdit \/ Return
    \/ Applied \/ WriteDone \/ Abort \/ ExternalWrite

Spec == Init /\ [][Next]_vars

(***************************************************************************)
(* validateLineRefs on references taken from the buffer itself             *)
(***************************************************************************)
\* the longest line array and the most references validated in one call
MaxLines == 3
MaxRefs == 2

\* a significant line, a punctuation-only line and an empty line
LineVocabulary == {<<"a">>, <<"}">>, <<>>}

LineArrays == UNION {[1..n -> LineVocabulary] : n \in 1..MaxLines}

InitRefs ==
    /\ lines \in LineArrays
    /\ content = join(lines)
    /\ edits = <<>>
    /\ refs = <<>>
    /\ refIdx = 1
    /\ mismatches = <<>>
    /\ sortedEdits = <<>>
    /\ editIdx = 1
    /\ applied = <<>>
    /\ pc = "idle"
    /\ outcome = Pending
    /\ NoToolCall

\* references to some lines of the buffer are taken and handed to
\* validateLineRefs
TakeRefs ==
    /\ pc = "idle"
    /\ \E n \in 1..MaxRefs :
         \E ns \in [1..n -> 1..Len(lines)] :
           refs' = [i \in 1..n |-> SelfRef(lines, ns[i])]
    /\ refIdx' = 1
    /\ mismatches' = <<>>
    /\ pc' = "validate"
    /\ outcome' = Pending
    /\ UNCHANGED <<toolVars, content, edits, lines, sortedEdits, editIdx, applied>>

\* the end of a validateLineRefs call of its own: the mismatches are thrown
\* as one error, or the call returns
ValidateRefsEnd ==
    /\ pc = "validate"
    /\ refIdx > Len(refs)
    /\ IF Len(mismatches) > 0
       THEN /\ pc' = "thrown"
            /\ outcome' = Thrown("HashMismatch", mismatches)
       ELSE /\ pc' = "idle"
            /\ outcome' = Returned(<<>>)
    /\ UNCHANGED <<toolVars, content, edits, lines, refs, refIdx, mismatches,
                   sortedEdits, editIdx, applied>>

\* one validateLineRef call on a reference to a line of the buffer
ValidateOne ==
    /\ pc = "idle"
    /\ \E n \in 1..Len(lines) :
         LET v == validateLineRef(lines, SelfRef(lines, n))
         IN  /\ refs' = <<SelfRef(lines, n)>>
             /\ pc' = IF v = "ok" THEN "idle" ELSE "thrown"
             /\ outcome' = IF v = "ok" THEN Returned(<<>>) ELSE Thrown(v, <<>>)
    /\ UNCHANGED <<toolVars, content, edits, lines, refIdx, mismatches,
                   sortedEdits, editIdx, applied>>

NextRefs == TakeRefs \/ ValidateRef \/ ValidateRefsEnd \/ ValidateOne

SpecRefs == InitRefs /\ [][NextRefs]_vars

(***************************************************************************)
(* dedupeEdits, one action per round of its loop                           *)
(***************************************************************************)
\* the longest batch handed to dedupeEdits
MaxDedupeEdits == 3

TextPlusX == <<"+", "X">>

\* edits that share a key without being equal (a "+" echoed before the text,
\* replace_lines and replace), and edits with keys of their own
DedupePool ==
    {SetLineEdit(GoodRef(1), TextX),
     SetLineEdit(GoodRef(1), TextPlusX),
     SetLineEdit(GoodRef(2), TextX),
     ReplaceLinesEdit(GoodRef(1), GoodRef(2), TextX),
     ReplaceEdit(GoodRef(1), GoodRef(2), TextX),
     AppendEdit(TextY)}

DedupeBatches == UNION {[1..n -> DedupePool] : n \in 0..MaxDedupeEdits}

InitDedupe ==
    /\ content = SampleContent
    /\ edits \in DedupeBatches
    /\ lines = <<>>
    /\ refs = <<>>
    /\ refIdx = 1
    /\ mismatches = <<>>
    /\ sortedEdits = <<>>
    /\ editIdx = 1
    /\ applied = <<>>
    /\ pc = "dedupe"
    /\ outcome = Pending
    /\ NoToolCall

\* the keys of the set seen: those of the edits pushed onto unique
SeenKeys == {buildDedupeKey(locals.uniqueEdits[i]) : i \in 1..Len(locals.uniqueEdits)}

\* mutant of DedupeStep: an edit is dropped only if the edit just before it
\* has its key
DedupeStepAdjacentOnly ==
    /\ pc = "dedupe"
    /\ editIdx <= Len(edits)
    /\ IF editIdx > 1 /\ buildDedupeKey(edits[editIdx]) = buildDedupeKey(edits[editIdx - 1])
       THEN locals' = [locals EXCEPT !.duplicatesRemoved = @ + 1]
       ELSE locals' = [locals EXCEPT !.uniqueEdits = Append(@, edits[editIdx])]
    /\ editIdx' = editIdx + 1
    /\ UNCHANGED <<content, edits, lines, refs, refIdx, mismatches, sortedEdits,
                   applied, pc, outcome, disk, rawEdits, signal, listening,
                   aborted, tpc, opsLog, promise, externalWrites>>

\* one round of dedupeEdits' loop
DedupeStep ==
    /\ pc = "dedupe"
    /\ editIdx <= Len(edits)
    /\ IF buildDedupeKey(edits[editIdx]) \in SeenKeys
       THEN locals' = [locals EXCEPT !.duplicatesRemoved = @ + 1]
       ELSE locals' = [locals EXCEPT !.uniqueEdits = Append(@, edits[editIdx])]
    /\ editIdx' = editIdx + 1
    /\ UNCHANGED <<content, edits, lines, refs, refIdx, mismatches, sortedEdits,
                   applied, pc, outcome, disk, rawEdits, signal, listening,
                   aborted, tpc, opsLog, promise, externalWrites>>

\* return { edits: unique, duplicatesRemoved }
DedupeReturn ==
    /\ pc = "dedupe"
    /\ editIdx > Len(edits)
    /\ pc' = "deduped"
    /\ UNCHANGED <<toolVars, content, edits, lines, refs, refIdx, mismatches,
                   sortedEdits, editIdx, applied, outcome>>

\* dedupeEdits is called again, on the edits it returned
DedupeAgain ==
    /\ pc = "deduped"
    /\ edits # locals.uniqueEdits
    /\ edits' = locals.uniqueEdits
    /\ editIdx' = 1
    /\ locals' = NoLocals
    /\ pc' = "dedupe"
    /\ UNCHANGED <<content, lines, refs, refIdx, mismatches, sortedEdits,
                   applied, outcome, disk, rawEdits, signal, listening,
                   aborted, tpc, opsLog, promise, externalWrites>>

NextDedupe == DedupeStep \/ DedupeReturn \/ DedupeAgain

SpecDedupe == InitDedupe /\ [][NextDedupe]_vars

(***************************************************************************)
(* computeLineHash on a line that is respaced and renumbered               *)
(***************************************************************************)
\* bounds of the lines hashed
MaxHashLen == 2
MaxLineNumber == 2

\* the characters of the lines hashed: whitespace, a letter, a digit,
\* punctuation
HashChars == {" ", "\t", "a", "1", "}", "#"}

\* every string of at most n of these characters
HashContents(n) == UNION {[1..k -> HashChars] : k \in 0..n}

\* text with the character c put in before position i
insertAt(text, i, c) == SubSeq(text, 1, i - 1) \o <<c>> \o SubSeq(text, i, Len(text))

\* text without the character at position i
removeAt(text, i) == SubSeq(text, 1, i - 1) \o SubSeq(text, i + 1, Len(text))

\* a line at a line number; the hash computed first is kept in mismatches
InitHash ==
    /\ content \in HashContents(MaxHashLen)
    /\ refIdx \in 1..MaxLineNumber
    /\ edits = <<>>
    /\ lines = <<>>
    /\ refs = <<>>
    /\ mismatches = <<>>
    /\ sortedEdits = <<>>
    /\ editIdx = 1
    /\ applied = <<>>
    /\ pc = "hash"
    /\ outcome = Pending
    /\ NoToolCall

\* computeLineHash(lineNumber, content) is called on the line as first given
HashLine ==
    /\ pc = "hash"
    /\ mismatches' = <<[line |-> refIdx, content |-> content,
                        hash |-> computeLineHash(refIdx, content)]>>
    /\ outcome' = Returned(computeLineHash(refIdx, content))
    /\ pc' = "hashed"
    /\ UNCHANGED <<toolVars, content, edits, lines, refs, refIdx, sortedEdits,
                   editIdx, applied>>

\* one whitespace character is put into the line or taken out of it
RespaceLine ==
    /\ pc \in {"hashed", "changed"}
    /\ \/ /\ Len(content) < MaxHashLen
          /\ \E i \in 1..(Len(content) + 1), c \in {" ", "\t"} :
               content' = insertAt(content, i, c)
       \/ \E i \in 1..Len(content) :
            /\ IsSpace(content[i])
            /\ content' = removeAt(content, i)
    /\ pc' = "changed"
    /\ UNCHANGED <<toolVars, edits, lines, refs, refIdx, mismatches, sortedEdits,
                   editIdx, applied, outcome>>

\* the line moves to another line number
MoveLine ==
    /\ pc \in {"hashed", "changed"}
    /\ \E n \in 1..MaxLineNumber : n # refIdx /\ refIdx' = n
    /\ pc' = "changed"
    /\ UNCHANGED <<toolVars, content, edits, lines, refs, mismatches, sortedEdits,
                   editIdx, applied, outcome>>

\* computeLineHash is called on the line as it is now
HashAgain ==
    /\ pc = "changed"
    /\ outcome' = Returned(computeLineHash(refIdx, content))
    /\ pc' = "rehashed"
    /\ UNCHANGED <<toolVars, content, edits, lines, refs, refIdx, mismatches,
                   sortedEdits, editIdx, applied>>

NextHash == HashLine \/ RespaceLine \/ MoveLine \/ HashAgain

SpecHash == InitHash /\ [][NextHash]_vars

(***************************************************************************)
(* parseLineRef on references written from a line number and a hash        *)
(***************************************************************************)
\* the largest line number a reference is written for
MaxRefLine == 12

\* the contents of the rows formatHashLine is called on
RowContents == {<<>>, <<"a", ":", "b">>}

\* the copy-paste marker in front of a row of a mismatch report
MARKER == <<">", ">", ">", " ">>

\* the ways the reference to line n with hash h reaches parseLineRef: as
\* formatted, after the marker, and with spaces around "#"
WrittenRefs(n, h) ==
    {FormatRef(n, h),
     MARKER \o FormatRef(n, h),
     NatToString(n) \o <<" ", "#", " ">> \o h}

InitParse ==
    /\ refIdx \in 1..MaxRefLine
    /\ content = <<>>
    /\ edits = <<>>
    /\ lines = <<>>
    /\ refs = <<>>
    /\ mismatches = <<>>
    /\ sortedEdits = <<>>
    /\ editIdx = 1
    /\ applied = <<>>
    /\ pc = "write"
    /\ outcome = Pending
    /\ NoToolCall

\* a reference to line refIdx and some hash of the dictionary is written;
\* mismatches keeps the pair it was written from
WriteRef ==
    /\ pc = "write"
    /\ \E index \in 0..255 :
         /\ mismatches' = <<[line |-> refIdx, hash |-> HASHLINE_DICT(index)]>>
         /\ \E ref \in WrittenRefs(refIdx, HASHLINE_DICT(index)) : refs' = <<ref>>
    /\ pc' = "parse"
    /\ UNCHANGED <<toolVars, content, edits, lines, refIdx, sortedEdits, editIdx,
                   applied, outcome>>

\* the row formatHashLine gives for line refIdx is copied whole
WriteRow ==
    /\ pc = "write"
    /\ \E text \in RowContents :
         /\ content' = text
         /\ mismatches' = <<[line |-> refIdx, hash |-> computeLineHash(refIdx, text)]>>
         /\ refs' = <<formatHashLine(refIdx, text)>>
    /\ pc' = "parse"
    /\ UNCHANGED <<toolVars, edits, lines, refIdx, sortedEdits, editIdx, applied,
                   outcome>>

\* parseLineRef(ref) returns { line, hash } or throws
ParseRef ==
    /\ pc = "parse"
    /\ outcome' = IF parseLineRef(refs[1]).ok
                  THEN Returned([line |-> parseLineRef(refs[1]).line,
                                 hash |-> parseLineRef(refs[1]).hash])
                  ELSE Thrown("InvalidReferenceFormat", <<>>)
    /\ pc' = "parsed"
    /\ UNCHANGED <<toolVars, content, edits, lines, refs, refIdx, mismatches,
                   sortedEdits, editIdx, applied>>

NextParse == WriteRef \/ WriteRow \/ ParseRef

SpecParse == InitParse /\ [][NextParse]_vars

(***************************************************************************)
(* normalizeHashlineEdits, one action per raw edit                         *)
(***************************************************************************)
\* the longest batch of raw edits normalized
MaxRawEdits == 2

\* the reference fields of a raw edit, and the reference each one holds when
\* it holds one: a different reference per field
RefFields == <<"line", "start_line", "end_line", "after_line", "before_line">>
FieldRef(i) == FormatRef(i, <<"Z", "Z">>)

\* what a field of a raw edit may hold: nothing, the empty string, a value
FieldStates == {"absent", "empty", "set"}
FieldValue(state, value) ==
    IF state = "absent" THEN Undefined ELSE IF state = "empty" THEN <<>> ELSE value

\* the edit types a model sends: the eight variants and one that is none
RawTypes ==
    {"set_line", "replace_lines", "replace", "insert_after", "insert_before",
     "insert_between", "append", "prepend", "delete"}

\* every raw edit of these types with every combination of absent, empty
\* and set fields; text and content hold different texts
RawShapes ==
    {[type |-> t,
      line |-> FieldValue(f[1], FieldRef(1)),
      start_line |-> FieldValue(f[2], FieldRef(2)),
      end_line |-> FieldValue(f[3], FieldRef(3)),
      after_line |-> FieldValue(f[4], FieldRef(4)),
      before_line |-> FieldValue(f[5], FieldRef(5)),
      text |-> FieldValue(x, TextX),
      content |-> FieldValue(y, TextY)] :
        t \in RawTypes, f \in [1..5 -> FieldStates],
        x \in FieldStates, y \in {"absent", "set"}}

\* a well-formed raw edit, one without its reference, one of no known type
RawNeighbours ==
    {RawSetLine(FieldRef(1), TextX),
     [RawHashlineEdit("insert_before") EXCEPT !.text = TextX],
     [RawHashlineEdit("delete") EXCEPT !.line = FieldRef(1)]}

\* the batches normalized: every shape alone, and every batch of neighbours
RawShapeBatches ==
    {<<raw>> : raw \in RawShapes}
        \cup UNION {[1..n -> RawNeighbours] : n \in 2..MaxRawEdits}

InitNormalize ==
    /\ rawEdits \in RawShapeBatches
    /\ content = <<>>
    /\ edits = <<>>
    /\ lines = <<>>
    /\ refs = <<>>
    /\ refIdx = 1
    /\ mismatches = <<>>
    /\ sortedEdits = <<>>
    /\ editIdx = 1
    /\ applied = <<>>
    /\ pc = "normalize"
    /\ outcome = Pending
    /\ disk = SampleContent
    /\ signal = "none"
    /\ listening = FALSE
    /\ aborted = FALSE
    /\ tpc = "start"
    /\ locals = NoLocals
    /\ opsLog = <<>>
    /\ promise = PendingPromise
    /\ externalWrites = 0

\* one call of the map callback: the typed edit is put into the new array,
\* or the callback throws and the array is lost
NormalizeEdit ==
    /\ pc = "normalize"
    /\ editIdx <= Len(rawEdits)
    /\ IF normalizeEdit(rawEdits[editIdx]).error = "none"
       THEN /\ edits' = Append(edits, normalizeEdit(rawEdits[editIdx]).edit)
            /\ editIdx' = editIdx + 1
            /\ UNCHANGED <<pc, outcome>>
       ELSE /\ outcome' = Thrown(normalizeEdit(rawEdits[editIdx]).error, <<>>)
            /\ pc' = "thrown"
            /\ UNCHANGED <<edits, editIdx>>
    /\ UNCHANGED <<toolVars, content, lines, refs, refIdx, mismatches, sortedEdits,
                   applied>>

\* rawEdits.map returns the new array
NormalizeReturn ==
    /\ pc = "normalize"
    /\ editIdx > Len(rawEdits)
    /\ outcome' = Returned(edits)
    /\ pc' = "returned"
    /\ UNCHANGED <<toolVars, content, edits, lines, refs, refIdx, mismatches,
                   sortedEdits, editIdx, applied>>

NextNormalize == NormalizeEdit \/ NormalizeReturn

SpecNormalize == InitNormalize /\ [][NextNormalize]_vars

(***************************************************************************)
(* generateDiffString, one action per part of the line diff                *)
(***************************************************************************)
\* the most lines of the old and of the new content
MaxDiffLines == 3

\* the lines of the contents compared, each with its newline: a line "a"
\* and an empty line
DiffTokenTexts == {<<"a", NL>>, <<NL>>}

DiffTokenSeqs == UNION {[1..k -> DiffTokenTexts] : k \in 0..MaxDiffLines}

\* the tokens with the newline of the last one taken off
withoutFinalNewline(ts) ==
    [ts EXCEPT ![Len(ts)] = SubSeq(@, 1, Len(@) - 1)]

\* the contents compared: up to MaxDiffLines lines, the last one with or
\* without its newline
DiffContents ==
    {Concat(ts) : ts \in DiffTokenSeqs}
        \cup {Concat(withoutFinalNewline(ts)) :
                 ts \in {t \in DiffTokenSeqs : Len(t) > 0 /\ t[Len(t)] # <<NL>>}}

\* old and new contents with three unchanged lines between two changes, and
\* with three unchanged lines before and after one change
LongDiffs ==
    {<<Concat(<< <<"a", NL>>, <<NL>>, <<NL>>, <<NL>>, <<"a", NL>> >>),
       Concat(<< <<NL>>, <<NL>>, <<NL>> >>)>>,
     <<Concat(<< <<NL>>, <<NL>>, <<NL>>, <<"a", NL>>, <<NL>>, <<NL>>, <<NL>> >>),
       Concat(<< <<NL>>, <<NL>>, <<NL>>, <<NL>>, <<NL>>, <<NL>> >>)>>}

\* the values of contextLines: the default, and one small enough to skip
\* lines of these contents
ContextLines == {1, 4}

RECURSIVE lineTokens(_)
\* the tokens diffLines compares: the lines of s, each with its newline
lineTokens(s) ==
    IF Len(s) = 0 THEN <<>>
    ELSE IF \A i \in 1..Len(s) : s[i] # NL THEN <<s>>
    ELSE <<SubSeq(s, 1, indexOf(s, <<NL>>))>>
             \o lineTokens(SubSeq(s, indexOf(s, <<NL>>) + 1, Len(s)))

RECURSIVE lcsLength(_, _)
\* the length of a longest common subsequence of two token sequences
lcsLength(o, n) ==
    IF o = <<>> \/ n = <<>> THEN 0
    ELSE IF Head(o) = Head(n) THEN 1 + lcsLength(Tail(o), Tail(n))
    ELSE Max(lcsLength(Tail(o), n), lcsLength(o, Tail(n)))

\* s with the operation of this kind on this token put in front
withOp(kind, token, scripts) ==
    {<<[kind |-> kind, value |-> token]>> \o s : s \in scripts}

RECURSIVE diffScripts(_, _)
\* the edit scripts from o to n with the fewest removed and added tokens
diffScripts(o, n) ==
    IF o = <<>> /\ n = <<>> THEN {<<>>}
    ELSE (IF o # <<>> /\ n # <<>> /\ Head(o) = Head(n)
          THEN withOp("=", Head(o), diffScripts(Tail(o), Tail(n))) ELSE {})
         \cup (IF o # <<>> /\ lcsLength(Tail(o), n) = lcsLength(o, n)
               THEN withOp("-", Head(o), diffScripts(Tail(o), n)) ELSE {})
         \cup (IF n # <<>> /\ lcsLength(o, Tail(n)) = lcsLength(o, n)
               THEN withOp("+", Head(n), diffScripts(o, Tail(n))) ELSE {})

\* in a run of changes the removed tokens come before the added ones
removalsFirst(script) ==
    \A i \in 1..(Len(script) - 1) :
        ~(script[i].kind = "+" /\ script[i + 1].kind = "-")

RECURSIVE mergeOps(_, _)
\* neighbouring operations of one kind made into one part
mergeOps(script, parts) ==
    IF script = <<>> THEN parts
    ELSE IF parts # <<>> /\ parts[Len(parts)].kind = Head(script).kind
    THEN mergeOps(Tail(script),
                  [parts EXCEPT ![Len(parts)].value = @ \o Head(script).value])
    ELSE mergeOps(Tail(script), Append(parts, Head(script)))

\* a part as the diff library hands it over
DiffPart(op) ==
    [added |-> op.kind = "+", removed |-> op.kind = "-", value |-> op.value]

\* Diff.diffLines(oldContent, newContent): the library is not part of the
\* program; every list of parts it may return for a shortest line script
diffLines(oldContent, newContent) ==
    {[i \in 1..Len(mergeOps(s, <<>>)) |-> DiffPart(mergeOps(s, <<>>)[i])] :
        s \in {t \in diffScripts(lineTokens(oldContent), lineTokens(newContent)) :
                  removalsFirst(t)}}

\* part.value.split("\n") with a last empty element popped
partLines(value) ==
    IF split(value)[Len(split(value))] = <<>>
    THEN SubSeq(split(value), 1, Len(split(value)) - 1)
    ELSE split(value)

RECURSIVE padStart(_, _)
\* s.padStart(width, " ")
padStart(s, width) == IF Len(s) >= width THEN s ELSE padStart(<<" ">> \o s, width)

\* String(maxLineNum).length
lineNumWidth(oldContent, newContent) ==
    Len(NatToString(Max(Len(split(oldContent)), Len(split(newContent)))))

\* `${sign}${padded}|${line}`
diffRow(sign, n, width, line) ==
    <<sign>> \o padStart(NatToString(n), width) \o <<"|">> \o line

\* ` ${"".padStart(lineNumWidth, " ")}|...`
skippedRow(width) == <<" ">> \o padStart(<<>>, width) \o <<"|", ".", ".", ".">>

\* the rows pushed for an added or removed part
changedRows(raw, sign, start, width) ==
    [k \in 1..Len(raw) |-> diffRow(sign, start + k - 1, width, raw[k])]

\* mutant of skipEnd: nothing is skipped at the end of an unchanged part
skipEndNever(raw, lastWasChange, nextPartIsChange, contextLines) == 0

\* skipStart and skipEnd of an unchanged part next to a change
skipStart(raw, lastWasChange, contextLines) ==
    IF lastWasChange THEN 0 ELSE Max(0, Len(raw) - contextLines)

skipEnd(raw, lastWasChange, nextPartIsChange, contextLines) ==
    IF ~nextPartIsChange
       /\ Len(raw) - skipStart(raw, lastWasChange, contextLines) > contextLines
    THEN Len(raw) - skipStart(raw, lastWasChange, contextLines) - contextLines
    ELSE 0

\* the rows pushed for an unchanged part next to a change
contextRows(raw, from, to, start, width) ==
    (IF from > 0 THEN <<skippedRow(width)>> ELSE <<>>)
        \o [k \in 1..(Len(raw) - from - to) |->
               diffRow(" ", start + from + k - 1, width, raw[from + k])]
        \o (IF to > 0 THEN <<skippedRow(width)>> ELSE <<>>)

\* mutant of firstChange: the line of every changed part is recorded
firstChangeOverwritten(firstChangedLine, newLineNum) == <<newLineNum>>

\* if (firstChangedLine === undefined) firstChangedLine = newLineNum; the
\* empty sequence stands for undefined
firstChange(firstChangedLine, newLineNum) ==
    IF firstChangedLine = <<>> THEN <<newLineNum>> ELSE firstChangedLine

\* generateDiffString has the parts of the diff of content and disk in
\* sortedEdits and its counters in locals; refIdx is contextLines, editIdx
\* the loop index and lines the output
InitDiff ==
    /\ \E pair \in (DiffContents \X DiffContents) \cup LongDiffs :
         content = pair[1] /\ disk = pair[2]
    /\ sortedEdits \in diffLines(content, disk)
    /\ refIdx \in ContextLines
    /\ locals = [oldLineNum |-> 1, newLineNum |-> 1, lastWasChange |-> FALSE,
                 firstChangedLine |-> <<>>]
    /\ edits = <<>>
    /\ lines = <<>>
    /\ refs = <<>>
    /\ mismatches = <<>>
    /\ editIdx = 1
    /\ applied = <<>>
    /\ pc = "diff"
    /\ outcome = Pending
    /\ rawEdits = <<>>
    /\ signal = "none"
    /\ listening = FALSE
    /\ aborted = FALSE
    /\ tpc = "start"
    /\ opsLog = <<>>
    /\ promise = PendingPromise
    /\ externalWrites = 0

\* one round of the loop on an added or removed part
DiffChangedPart ==
    /\ pc = "diff"
    /\ editIdx <= Len(sortedEdits)
    /\ sortedEdits[editIdx].added \/ sortedEdits[editIdx].removed
    /\ lines' = lines \o
           IF sortedEdits[editIdx].added
           THEN changedRows(partLines(sortedEdits[editIdx].value), "+",
                            locals.newLineNum,
                            lineNumWidth(content, disk))
           ELSE changedRows(partLines(sortedEdits[editIdx].value), "-",
                            locals.oldLineNum,
                            lineNumWidth(content, disk))
    /\ locals' =
           [firstChangedLine |-> firstChange(locals.firstChangedLine,
                                             locals.newLineNum),
            newLineNum |-> IF sortedEdits[editIdx].added
                           THEN locals.newLineNum
                                    + Len(partLines(sortedEdits[editIdx].value))
                           ELSE locals.newLineNum,
            oldLineNum |-> IF sortedEdits[editIdx].added
                           THEN locals.oldLineNum
                           ELSE locals.oldLineNum
                                    + Len(partLines(sortedEdits[editIdx].value)),
            lastWasChange |-> TRUE]
    /\ editIdx' = editIdx + 1
    /\ UNCHANGED <<content, edits, refs, refIdx, mismatches, sortedEdits, applied,
                   pc, outcome, disk, rawEdits, signal, listening, aborted, tpc,
                   opsLog, promise, externalWrites>>

\* the next part exists and is an added or removed one
nextPartIsChange(parts, i) ==
    i < Len(parts) /\ (parts[i + 1].added \/ parts[i + 1].removed)

\* one round of the loop on an unchanged part: its rows next to a change are
\* pushed, the rest is skipped, and both counters pass the whole part
DiffContextPart ==
    /\ pc = "diff"
    /\ editIdx <= Len(sortedEdits)
    /\ ~(sortedEdits[editIdx].added \/ sortedEdits[editIdx].removed)
    /\ lines' =
           IF locals.lastWasChange \/ nextPartIsChange(sortedEdits, editIdx)
           THEN lines \o contextRows(
                    partLines(sortedEdits[editIdx].value),
                    skipStart(partLines(sortedEdits[editIdx].value),
                              locals.lastWasChange, refIdx),
                    skipEnd(partLines(sortedEdits[editIdx].value),
                            locals.lastWasChange,
                            nextPartIsChange(sortedEdits, editIdx), refIdx),
                    locals.oldLineNum, lineNumWidth(content, disk))
           ELSE lines
    /\ locals' =
           [locals EXCEPT
               !.oldLineNum = @ + Len(partLines(sortedEdits[editIdx].value)),
               !.newLineNum = @ + Len(partLines(sortedEdits[editIdx].value)),
               !.lastWasChange = FALSE]
    /\ editIdx' = editIdx + 1
    /\ UNCHANGED <<content, edits, refs, refIdx, mismatches, sortedEdits, applied,
                   pc, outcome, disk, rawEdits, signal, listening, aborted, tpc,
                   opsLog, promise, externalWrites>>

\* return { diff: output.join("\n"), firstChangedLine }
DiffReturn ==
    /\ pc = "diff"
    /\ editIdx > Len(sortedEdits)
    /\ outcome' = Returned([diff |-> join(lines),
                            firstChangedLine |-> locals.firstChangedLine])
    /\ pc' = "returned"
    /\ UNCHANGED <<toolVars, content, edits, lines, refs, refIdx, mismatches,
                   sortedEdits, editIdx, applied>>

NextDiff == DiffChangedPart \/ DiffContextPart \/ DiffReturn

SpecDiff == InitDiff /\ [][NextDiff]_vars

(***************************************************************************)
(* One raw edit, normalized and applied                                    *)
(***************************************************************************)

\* what a raw edit carries as its text: nothing, text, content, or an empty
\* text
WithText(raw) ==
    {raw, [raw EXCEPT !.text = TextX], [raw EXCEPT !.content = TextY],
     [raw EXCEPT !.text = <<>>]}

\* the raw edits of every type against the n-line file, with references that
\* match it, and a set_line that names no line
RawSingleEdits(n) ==
    LET ref(i) == SelfRef(FileLines(n), i)
        one(type) == {[RawHashlineEdit(type) EXCEPT !.line = ref(i)] : i \in 1..n}
        two(type) == {[RawHashlineEdit(type) EXCEPT !.start_line = ref(i),
                                                    !.end_line = ref(j)] :
                          i \in 1..n, j \in 1..n}
        between == {[RawHashlineEdit("insert_between") EXCEPT
                         !.after_line = ref(i), !.before_line = ref(j)] :
                        i \in 1..n, j \in 1..n}
    IN  UNION {WithText(raw) :
                  raw \in one("set_line") \cup one("insert_after")
                          \cup one("insert_before") \cup two("replace_lines")
                          \cup two("replace") \cup between
                          \cup {RawHashlineEdit("append"), RawHashlineEdit("prepend"),
                                RawHashlineEdit("set_line")}}

InitRaw ==
    /\ \E n \in 1..MaxFileLines :
         /\ content = join(FileLines(n))
         /\ \E raw \in RawSingleEdits(n) : rawEdits = <<raw>>
    /\ edits = <<>>
    /\ lines = <<>>
    /\ refs = <<>>
    /\ refIdx = 1
    /\ mismatches = <<>>
    /\ sortedEdits = <<>>
    /\ editIdx = 1
    /\ applied = <<>>
    /\ pc = "normalize"
    /\ outcome = Pending
    /\ disk = content
    /\ signal = "none"
    /\ listening = FALSE
    /\ aborted = FALSE
    /\ tpc = "start"
    /\ locals = NoLocals
    /\ opsLog = <<>>
    /\ promise = PendingPromise
    /\ externalWrites = 0

\* normalizeHashlineEdits has returned: the typed edits, less their
\* duplicates, are handed to applyHashlineEdits
ApplyNormalized ==
    /\ pc = "normalize"
    /\ editIdx > Len(rawEdits)
    /\ edits' = dedupeEdits(edits).edits
    /\ editIdx' = 1
    /\ pc' = "call"
    /\ UNCHANGED <<toolVars, content, lines, refs, refIdx, mismatches,
                   sortedEdits, applied, outcome>>

NextRaw ==
    \/ NormalizeEdit \/ ApplyNormalized
    \/ Enter \/ ValidateRef \/ ValidateEnd \/ ApplyEdit \/ Return

SpecRaw == InitRaw /\ [][NextRaw]_vars

(***************************************************************************)
(* stripLinePrefixes, one action per line counted                          *)
(***************************************************************************)

\* the most lines of a submitted text
MaxStripLines == 4

\* the lines of a submitted text: empty, plain, with a "+" echoed from a
\* diff, a "++" header, a "+" alone, and with an echoed hashline prefix
StripLineTexts ==
    {<<>>, <<"X">>, <<"+", "X">>, <<"+", "+", "X">>, <<"+">>,
     <<"1", "#", "Z", "P", ":", "X">>}

\* lines holds the argument, editIdx the loop index, locals the counters
InitStrip ==
    /\ lines \in UNION {[1..n -> StripLineTexts] : n \in 0..MaxStripLines}
    /\ editIdx = 1
    /\ locals = [nonEmpty |-> 0, hashPrefixCount |-> 0, diffPlusCount |-> 0]
    /\ pc = "count"
    /\ outcome = Pending
    /\ content = <<>>
    /\ edits = <<>>
    /\ refs = <<>>
    /\ refIdx = 1
    /\ mismatches = <<>>
    /\ sortedEdits = <<>>
    /\ applied = <<>>
    /\ disk = <<>>
    /\ rawEdits = <<>>
    /\ signal = "none"
    /\ listening = FALSE
    /\ aborted = FALSE
    /\ tpc = "start"
    /\ opsLog = <<>>
    /\ promise = PendingPromise
    /\ externalWrites = 0

\* one round of the counting loop
StripCount ==
    /\ pc = "count"
    /\ editIdx <= Len(lines)
    /\ locals' =
          IF Len(lines[editIdx]) = 0 THEN locals
          ELSE [nonEmpty |-> locals.nonEmpty + 1,
                hashPrefixCount |->
                    locals.hashPrefixCount
                        + IF HASHLINE_PREFIX_RE(lines[editIdx]) THEN 1 ELSE 0,
                diffPlusCount |->
                    locals.diffPlusCount
                        + IF DIFF_PLUS_RE(lines[editIdx]) THEN 1 ELSE 0]
    /\ editIdx' = editIdx + 1
    /\ UNCHANGED <<content, edits, lines, refs, refIdx, mismatches, sortedEdits,
                   applied, pc, outcome, disk, rawEdits, signal, listening,
                   aborted, tpc, opsLog, promise, externalWrites>>

\* after the loop: the lines themselves, or the mapped lines
StripReturn ==
    /\ pc = "count"
    /\ editIdx > Len(lines)
    /\ outcome' = Returned(stripPrefixesCounted(lines, locals.nonEmpty,
                                                locals.hashPrefixCount,
                                                locals.diffPlusCount))
    /\ pc' = "returned"
    /\ UNCHANGED <<toolVars, content, edits, lines, refs, refIdx, mismatches,
                   sortedEdits, editIdx, applied>>

NextStrip == StripCount \/ StripReturn

SpecStrip == InitStrip /\ [][NextStrip]_vars

(***************************************************************************)
(* ConcurrencyManager under BackgroundTaskManager.launch                   *)
(***************************************************************************)

\* the most tasks in flight at once, and the largest limit
MaxTasks == 3
MaxLimit == 2

Tasks == 1..MaxTasks
ModelKeys == {"default", "opus"}

\* locals holds the manager (defaultLimit, the maps running and waiters, a
\* waiter named by the task whose acquire it resolves) and the tasks: the
\* model key and the status of each, "none" for a task not launched.  A
\* pending task outside the queue has had its acquire resolved.
IsWaiting(l, t) ==
    \E i \in 1..Len(l.waiters[l.tasks[t].modelKey]) :
        l.waiters[l.tasks[t].modelKey][i] = t

\* acquire(model), called by task t
acquire(l, model, t) ==
    IF l.running[model] < l.defaultLimit
    THEN [l EXCEPT !.running[model] = @ + 1]
    ELSE [l EXCEPT !.waiters[model] = Append(@, t)]

\* mutant of release: the waiter that queued last is taken
releaseLastWaiter(l, model) ==
    IF l.running[model] <= 0 THEN l
    ELSE IF Len(l.waiters[model]) > 0
    THEN [l EXCEPT !.waiters[model] = SubSeq(@, 1, Len(@) - 1)]
    ELSE [l EXCEPT !.running[model] = @ - 1]

\* release(model)
release(l, model) ==
    IF l.running[model] <= 0 THEN l
    ELSE IF Len(l.waiters[model]) > 0
    THEN [l EXCEPT !.waiters[model] = Tail(@)]
    ELSE [l EXCEPT !.running[model] = @ - 1]

InitConcurrency ==
    /\ \E limit \in 1..MaxLimit :
         locals = [defaultLimit |-> limit,
                   running |-> [m \in ModelKeys |-> 0],
                   waiters |-> [m \in ModelKeys |-> <<>>],
                   tasks |-> [t \in Tasks |-> [modelKey |-> "default",
                                               status |-> "none"]]]
    /\ pc = "idle"
    /\ outcome = Pending
    /\ content = <<>>
    /\ edits = <<>>
    /\ lines = <<>>
    /\ refs = <<>>
    /\ refIdx = 1
    /\ mismatches = <<>>
    /\ sortedEdits = <<>>
    /\ editIdx = 1
    /\ applied = <<>>
    /\ disk = <<>>
    /\ rawEdits = <<>>
    /\ signal = "none"
    /\ listening = FALSE
    /\ aborted = FALSE
    /\ tpc = "start"
    /\ opsLog = <<>>
    /\ promise = PendingPromise
    /\ externalWrites = 0

ConcurrencyFrame ==
    UNCHANGED <<applyVars, disk, rawEdits, signal, listening, aborted, tpc,
                opsLog, promise, externalWrites>>

\* launch up to its await: the task is pending and acquire has run
Launch ==
    /\ \E t \in Tasks, model \in ModelKeys :
         /\ locals.tasks[t].status \in {"none", "completed", "aborted"}
         /\ locals' = acquire([locals EXCEPT !.tasks[t] =
                                   [modelKey |-> model, status |-> "pending"]],
                              model, t)
    /\ ConcurrencyFrame

\* acquire has resolved and the task was not aborted meanwhile: it runs
Start ==
    /\ \E t \in Tasks :
         /\ locals.tasks[t].status = "pending"
         /\ ~IsWaiting(locals, t)
         /\ locals' = [locals EXCEPT !.tasks[t].status = "running"]
    /\ ConcurrencyFrame

\* acquire has resolved for a task aborted while it waited: it returns, and
\* the finally block releases
AbortedStart ==
    /\ \E t \in Tasks :
         /\ locals.tasks[t].status = "pending"
         /\ ~IsWaiting(locals, t)
         /\ locals' = release([locals EXCEPT !.tasks[t].status = "aborted"],
                              locals.tasks[t].modelKey)
    /\ ConcurrencyFrame

\* runAgent settles: the finally block releases
Finish ==
    /\ \E t \in Tasks :
         /\ locals.tasks[t].status = "running"
         /\ locals' = release([locals EXCEPT !.tasks[t].status = "completed"],
                              locals.tasks[t].modelKey)
    /\ ConcurrencyFrame

NextConcurrency == Launch \/ Start \/ AbortedStart \/ Finish

SpecConcurrency == InitConcurrency /\ [][NextConcurrency]_vars

(***************************************************************************)
(* Properties of applyHashlineEdits                                        *)
(***************************************************************************)
IsRangeEdit(e) == e.type \in {"replace_lines", "replace"}

\* every reference of the batch is well-formed, in range and matches the file
AllRefsValid ==
    \A i \in 1..Len(collectLineRefs(edits)) :
        validateLineRef(split(content), collectLineRefs(edits)[i]) = "ok"

EditStart(e) == parseLineRef(e.start_line).line
EditEnd(e) == parseLineRef(e.end_line).line

\* the call is over
Finished == pc \in {"returned", "thrown"}

\* edits i and j are range edits over well-ordered ranges that share a line
RangesOverlap(i, j) ==
    /\ i # j
    /\ IsRangeEdit(edits[i]) /\ IsRangeEdit(edits[j])
    /\ EditStart(edits[i]) <= EditEnd(edits[i])
    /\ EditStart(edits[j]) <= EditEnd(edits[j])
    /\ EditStart(edits[i]) <= EditEnd(edits[j])
    /\ EditStart(edits[j]) <= EditEnd(edits[i])

\* edit i is a set_line whose line lies inside the range of range edit j
PointInsideRange(i, j) ==
    /\ edits[i].type = "set_line" /\ IsRangeEdit(edits[j])
    /\ EditStart(edits[j]) <= EditEnd(edits[j])
    /\ EditStart(edits[j]) <= parseLineRef(edits[i].line).line
    /\ parseLineRef(edits[i].line).line <= EditEnd(edits[j])

\* C1: applyHashlineEdits is all-or-nothing.  A call that returns has run the
\* case of every edit of the batch and returns the joined array they left (the
\* content itself for the empty batch); a call that throws hands the caller no
\* content at all, whatever it had already done to its local array; and the
\* content argument is never changed.
C1_AllOrNothing ==
    /\ content = SampleContent
    /\ outcome.kind = "returned" =>
          /\ Len(applied) = Len(edits)
          /\ \A i \in 1..Len(edits) :
                Cardinality({k \in 1..Len(applied) : applied[k] = edits[i]})
                    = Cardinality({k \in 1..Len(edits) : edits[k] = edits[i]})
          /\ outcome.value = IF Len(edits) = 0 THEN content ELSE join(lines)
          /\ outcome.error = "none"
    /\ outcome.kind = "thrown" => outcome.value = <<>> /\ outcome.error # "none"
    /\ outcome.kind = "pending" => outcome.value = <<>>
    /\ pc = "returned" <=> outcome.kind = "returned"
    /\ pc = "thrown" <=> outcome.kind = "thrown"

\* C1 witness: a call that throws in the apply loop after another edit of the
\* batch has already changed the local array
C1_ThrowAfterPartialEdit ==
    /\ pc = "thrown"
    /\ Len(applied) >= 1
    /\ lines # split(content)
    /\ outcome.value = <<>>

\* C4: a batch of valid references with two range edits whose ranges share a
\* line is rejected with the overlapping-range-edits error, and never returns
\* content
C4_OverlappingRangesRejected ==
    (/\ Finished
     /\ AllRefsValid
     /\ \E i, j \in 1..Len(edits) : RangesOverlap(i, j))
    => outcome.kind = "thrown" /\ outcome.error = "OverlappingEdits"

\* C5: a batch of valid references with a set_line on a line inside the range
\* of a replace_lines/replace edit is rejected with the conflicting-edits error,
\* and never returns content
C5_PointInsideRangeRejected ==
    (/\ Finished
     /\ AllRefsValid
     /\ \E i, j \in 1..Len(edits) : PointInsideRange(i, j))
    => outcome.kind = "thrown" /\ outcome.error = "ConflictingEdits"

IndexPermutations(n) ==
    {p \in [1..n -> 1..n] : \A i, j \in 1..n : i # j => p[i] # p[j]}

Permuted(es, p) == [i \in 1..Len(es) |-> es[p[i]]]

\* no two edits of the batch have the same anchor line
DistinctAnchors ==
    \A i, j \in 1..Len(edits) :
        i # j => getEditLineNumber(edits[i]) # getEditLineNumber(edits[j])

\* the edits in strictly decreasing anchor order (for distinct anchors)
DescendingOrder(es) ==
    LET p == CHOOSE q \in IndexPermutations(Len(es)) :
                 \A i, j \in 1..Len(es) :
                     i < j => getEditLineNumber(es[q[i]]) > getEditLineNumber(es[q[j]])
    IN  Permuted(es, p)

\* the edits applied one at a time, highest anchor first
OneAtATime(text, es) ==
    LET r == applyFrom(split(text), DescendingOrder(es))
    IN  IF r.error # "none" THEN [error |-> r.error, value |-> <<>>]
        ELSE [error |-> "none", value |-> join(r.lines)]

\* what the stepwise call has delivered, in the shape applyHashlineEdits gives
Delivered == [error |-> outcome.error, value |-> outcome.value]

\* C6 (as stated): for a batch that passes validation every permutation of the
\* batch gives the same result
C6_AnyOrderSameResult ==
    (Finished /\ AllRefsValid)
    => \A p \in IndexPermutations(Len(edits)) :
          applyHashlineEdits(content, Permuted(edits, p)) = Delivered

\* C6 (amended): for a batch that passes validation and whose edits have
\* pairwise different anchor lines, every permutation of the batch gives the
\* same result, the one of applying the edits one at a time in strictly
\* decreasing anchor order; the stepwise call delivers that result too
C6_DistinctAnchorsAnyOrder ==
    (Finished /\ Len(edits) > 0 /\ AllRefsValid /\ DistinctAnchors)
    => /\ Delivered = OneAtATime(content, edits)
       /\ \A p \in IndexPermutations(Len(edits)) :
              applyHashlineEdits(content, Permuted(edits, p)) = Delivered

\* C6 witness: a finished call on a batch of distinct anchors submitted lowest
\* anchor first, where applying in submission order would have given another
\* content
C6_SortMattered ==
    /\ pc = "returned"
    /\ Len(edits) >= 2
    /\ AllRefsValid /\ DistinctAnchors
    /\ sortedEdits # edits
    /\ applyFrom(split(content), edits).error = "none"
    /\ outcome.value # join(applyFrom(split(content), edits).lines)

RECURSIVE ExpectedMismatches(_, _)
\* the references of rs that are in range and whose hash is not the one of
\* the line they name, each with the current hash and the current content
ExpectedMismatches(ls, rs) ==
    IF Len(rs) = 0 THEN <<>>
    ELSE LET p == parseLineRef(Head(rs))
             rest == ExpectedMismatches(ls, Tail(rs))
         IN  IF p.ok /\ p.line \in 1..Len(ls)
                  /\ computeLineHash(p.line, ls[p.line]) # p.hash
             THEN <<[kind |-> "HashMismatch", ref |-> Head(rs), line |-> p.line,
                     expectedHash |-> p.hash,
                     currentHash |-> computeLineHash(p.line, ls[p.line]),
                     content |-> ls[p.line]]>> \o rest
             ELSE rest

RefInRange(ls, r) == parseLineRef(r).ok /\ parseLineRef(r).line \in 1..Len(ls)

RefOutOfRange(ls, r) == parseLineRef(r).ok /\ parseLineRef(r).line \notin 1..Len(ls)

FirstOutOfRange(ls, rs) ==
    CHOOSE k \in 1..Len(rs) :
        /\ RefOutOfRange(ls, rs[k])
        /\ \A j \in 1..(k - 1) : ~RefOutOfRange(ls, rs[j])

\* C8 (as stated): if a reference of the batch has a line number out of
\* range, validation stops at the first such reference with an out-of-bounds
\* error that reports no mismatch
C8_OutOfBoundsAtFirstSuchRef ==
    LET ls == split(content)
        rs == collectLineRefs(edits)
    IN  (Finished /\ \E i \in 1..Len(rs) : RefOutOfRange(ls, rs[i]))
        => /\ pc = "thrown"
           /\ outcome.error = "OutOfBounds"
           /\ refIdx = FirstOutOfRange(ls, rs)
           /\ outcome.mismatches = <<>>

\* C8 (amended): if a reference of the batch has a line number out of range
\* and every reference before the first such one is well-formed, validation
\* stops at that reference with an out-of-bounds error that reports none of
\* the mismatches gathered before it, and no edit is applied
C8_OutOfBoundsAfterWellFormedRefs ==
    LET ls == split(content)
        rs == collectLineRefs(edits)
    IN  (/\ \E i \in 1..Len(rs) : RefOutOfRange(ls, rs[i])
         /\ \A j \in 1..(FirstOutOfRange(ls, rs) - 1) : parseLineRef(rs[j]).ok)
        => /\ pc \in {"call", "validate", "thrown"}
           /\ refIdx <= FirstOutOfRange(ls, rs)
           /\ applied = <<>>
           /\ pc = "thrown" =>
                 /\ outcome.error = "OutOfBounds"
                 /\ refIdx = FirstOutOfRange(ls, rs)
                 /\ outcome.mismatches = <<>>
                 /\ outcome.value = <<>>

\* C8 witness: an out-of-bounds failure raised after a mismatch had been
\* gathered, which the error does not report
C8_MismatchDroppedByOutOfBounds ==
    /\ pc = "thrown"
    /\ outcome.error = "OutOfBounds"
    /\ Len(mismatches) >= 1
    /\ outcome.mismatches = <<>>

\* C10: a batch of a set_line and an insert_before on the same line L, in
\* either order, returns the lines before L, the inserted lines, the
\* replacement, and the lines after L
C10_ReplaceThenInsertBefore ==
    \A i, j \in 1..Len(edits) :
        (/\ Len(edits) = 2 /\ pc = "returned" /\ AllRefsValid
         /\ edits[i].type = "set_line" /\ edits[j].type = "insert_before"
         /\ parseLineRef(edits[i].line).line = parseLineRef(edits[j].line).line)
        => LET ls == split(content)
               L == parseLineRef(edits[i].line).line
           IN  outcome.value =
                   join(SubSeq(ls, 1, L - 1)
                        \o split(unescapeNewlines(edits[j].text))
                        \o <<unescapeNewlines(edits[i].text)>>
                        \o SubSeq(ls, L + 1, Len(ls)))

(***************************************************************************)
(* Properties of references taken from the buffer itself                   *)
(***************************************************************************)
\* C9: for every line array and every line number i of it, the reference
\* i#computeLineHash(i, lines[i]) passes validateLineRef, and any references
\* of that kind pass validateLineRefs, against the same unmodified array:
\* validating them never throws and gathers no mismatch, however often it is
\* repeated.  The array never changes, so the operators are compared on it
\* once, before the first call.
C9_SelfRefsValidate ==
    /\ pc # "thrown"
    /\ mismatches = <<>>
    /\ refs = <<>> =>
         \A i \in 1..Len(lines) :
           /\ validateLineRef(lines, SelfRef(lines, i)) = "ok"
           /\ \A j \in 1..Len(lines) :
                validateLineRefs(lines, <<SelfRef(lines, i), SelfRef(lines, j)>>).kind
                    = "ok"

\* C9 witness: a validateLineRefs call over two references, one of them to a
\* line without a letter or digit below line 1, has returned
C9_SelfRefsValidated ==
    /\ pc = "idle"
    /\ outcome.kind = "returned"
    /\ Len(refs) >= 2
    /\ refIdx > Len(refs)
    /\ \E i \in 1..Len(refs) :
         LET n == parseLineRef(refs[i]).line
         IN  n > 1 /\ ~hasSignificantContent(normalizeLineContent(lines[n]))

(***************************************************************************)
(* Properties of the edit tool                                             *)
(***************************************************************************)
\* how often the call has invoked the operation op
CountCalls(op) == Cardinality({i \in 1..Len(opsLog) : opsLog[i].op = op})

\* the contents handed to ops.writeFile, in order
Writes ==
    LET IsWrite(c) == c.op = "writeFile"
        w == SelectSeq(opsLog, IsWrite)
    IN  [i \in 1..Len(w) |-> w[i].data]

\* the failures of the call other than its abort
Failures ==
    {"FileNotFound", "MissingField", "UnknownEditType", "ReadError",
     "InvalidReferenceFormat", "OutOfBounds", "HashMismatch", "InvalidRange",
     "NotAdjacent"}

\* C2: writeFile is called at most once, and only after normalization,
\* deduplication, reference validation and application of the whole batch
\* succeeded on what was read and produced content different from it; a call
\* rejected with one of the failures has not called writeFile; access,
\* readFile and writeFile are each called at most once (nothing is retried).
C2_WriteOnceAfterSuccess ==
    /\ \A op \in {"access", "readFile", "writeFile"} : CountCalls(op) <= 1
    /\ CountCalls("writeFile") = 1 =>
         LET n == normalizeHashlineEdits(rawEdits)
             d == dedupeEdits(n.edits)
             ls == split(locals.normalizedContent)
             r == applyHashlineEdits(locals.normalizedContent, d.edits)
         IN  /\ n.error = "none"
             /\ Len(d.edits) > 0
             /\ locals.uniqueEdits = d.edits
             /\ locals.read
             /\ locals.normalizedContent = normalizeToLF(stripBom(locals.rawContent).text)
             /\ validateLineRefs(ls, collectLineRefs(d.edits)).kind = "ok"
             /\ r.error = "none"
             /\ r.value # locals.normalizedContent
             /\ Writes[1] = locals.bom \o restoreLineEndings(r.value, locals.originalEnding)
    /\ (promise.state = "rejected" /\ promise.result \in Failures) =>
         /\ CountCalls("writeFile") = 0
         /\ disk \in InitialDisks \cup ExternalContents
    /\ (promise.state = "rejected") => promise.result \in Failures \cup {"Aborted"}

\* C2 witness: a call that removed a duplicate has written a CRLF file once
\* and reported it
C2_WrittenOnce ==
    /\ tpc = "done"
    /\ promise = [state |-> "resolved", result |-> "Updated"]
    /\ CountCalls("writeFile") = 1
    /\ locals.duplicatesRemoved > 0
    /\ locals.originalEnding = <<CR, NL>>
    /\ disk = Writes[1]

\* some reference of the batch names a line of the file as read whose hash
\* is not the one in the reference
StaleAtRead ==
    /\ locals.read
    /\ LET ls == split(normalizeToLF(stripBom(locals.rawContent).text))
           rs == collectLineRefs(locals.uniqueEdits)
       IN  \E i \in 1..Len(rs) :
             LET p == parseLineRef(rs[i])
             IN  /\ p.ok
                 /\ p.line \in 1..Len(ls)
                 /\ computeLineHash(p.line, ls[p.line]) # p.hash

\* every reference of the batch is well-formed and names a line of the file
\* as read
AllRefsInRangeAtRead ==
    LET ls == split(normalizeToLF(stripBom(locals.rawContent).text))
        rs == collectLineRefs(locals.uniqueEdits)
    IN  \A i \in 1..Len(rs) :
          parseLineRef(rs[i]).ok /\ parseLineRef(rs[i]).line \in 1..Len(ls)

\* C3 as stated, for the calls that are not aborted: when the file as read
\* holds a line whose hash differs from the one in a reference of the batch,
\* the call fails with a hash-mismatch error, writeFile is never called and
\* nothing is retried.
C3_StaleRefsHashMismatch ==
    (StaleAtRead /\ ~aborted) =>
        /\ CountCalls("writeFile") = 0
        /\ CountCalls("readFile") = 1
        /\ tpc = "done" =>
             promise = [state |-> "rejected", result |-> "HashMismatch"]

\* C3: when the file as read holds a line whose hash differs from the one in
\* a reference of the batch, the call is rejected, writeFile is never called
\* and nothing is retried; the error is the hash mismatch if every reference
\* of the batch is well-formed and in range and the call was not aborted
\* before the read settled, the abort if it was, and else the format or
\* out-of-bounds error of the first such reference.
C3_StaleRefsRejected ==
    StaleAtRead =>
        /\ CountCalls("writeFile") = 0
        /\ CountCalls("readFile") = 1
        /\ tpc = "done" =>
             /\ promise.state = "rejected"
             /\ (~aborted /\ AllRefsInRangeAtRead) => promise.result = "HashMismatch"
             /\ aborted => promise.result = "Aborted"
             /\ (~aborted /\ ~AllRefsInRangeAtRead) =>
                  promise.result \in {"InvalidReferenceFormat", "OutOfBounds"}

\* C3 witness: references that matched the file when the call began, another
\* writer changed a referenced line before the read, and the call ended with
\* the hash mismatch
C3_ChangedUnderneath ==
    /\ tpc = "done"
    /\ StaleAtRead
    /\ externalWrites > 0
    /\ \A i \in 1..Len(locals.uniqueEdits) :
         \A j \in 1..Len(editLineRefs(locals.uniqueEdits[i])) :
           validateLineRef(SampleLines, editLineRefs(locals.uniqueEdits[i])[j]) = "ok"
    /\ promise = [state |-> "rejected", result |-> "HashMismatch"]
    /\ CountCalls("writeFile") = 0

(***************************************************************************)
(* Properties of single edits                                              *)
(***************************************************************************)
\* the number of lines a text stands for: none for the empty text, else one
\* more than its newlines, escaped or not
TextLineCount(text) ==
    IF text = <<>> THEN 0
    ELSE 1 + Cardinality({i \in 1..Len(text) : text[i] = NL})
           + Cardinality({i \in 1..(Len(text) - 1) :
                              text[i] = BACKSLASH /\ text[i + 1] = "n"})

\* the batch is one range edit with start <= end
OneRangeEdit ==
    /\ Len(edits) = 1
    /\ IsRangeEdit(edits[1])
    /\ EditStart(edits[1]) <= EditEnd(edits[1])

\* C11: replace_lines and replace over valid references with start <= end
\* return, and the returned line array is the original with exactly the
\* lines start..end replaced by the lines of text: it has
\* n - (end - start + 1) + k lines, k the number of lines of text (none for
\* the empty text), the lines before start and after end are kept, and the
\* returned string is that array joined (the empty string when no line is
\* left).
C11_ReplaceLinesCount ==
    (OneRangeEdit /\ AllRefsValid /\ Finished) =>
        LET before == split(content)
            n == Len(before)
            start == EditStart(edits[1])
            end == EditEnd(edits[1])
            k == TextLineCount(edits[1].text)
        IN  /\ pc = "returned"
            /\ Len(lines) = n - (end - start + 1) + k
            /\ SubSeq(lines, 1, start - 1) = SubSeq(before, 1, start - 1)
            /\ SubSeq(lines, start + k, Len(lines)) = SubSeq(before, end + 1, n)
            /\ k > 0 => join(SubSeq(lines, start, start + k - 1))
                            = unescapeNewlines(edits[1].text)
            /\ outcome.value = join(lines)
            /\ Len(lines) > 0 => split(outcome.value) = lines

\* C11 witness: the range 2..4 of the 5-line file was replaced by a one-line
\* text, and 3 lines are left with the text in the middle
C11_FiveLinesToThree ==
    /\ pc = "returned"
    /\ OneRangeEdit
    /\ Len(split(content)) = 5
    /\ EditStart(edits[1]) = 2
    /\ EditEnd(edits[1]) = 4
    /\ lines = <<FileLine(1), TextX, FileLine(5)>>
    /\ outcome.value = join(lines)

\* the batch is one insert_between
OneInsertBetween == Len(edits) = 1 /\ edits[1].type = "insert_between"

\* C12: an insert_between whose references are both valid fails with the
\* not-adjacent error, nothing being returned and the line array left as it
\* was, when before_line is not after_line + 1; when it is, the call returns
\* the original with the lines of text between those two lines.
C12_InsertBetweenAdjacent ==
    (OneInsertBetween /\ AllRefsValid /\ Finished) =>
        LET before == split(content)
            afterLine == parseLineRef(edits[1].after_line).line
            beforeLine == parseLineRef(edits[1].before_line).line
            newLines == split(unescapeNewlines(edits[1].text))
        IN  IF beforeLine # afterLine + 1
            THEN /\ pc = "thrown"
                 /\ outcome.error = "NotAdjacent"
                 /\ outcome.value = <<>>
                 /\ lines = before
            ELSE /\ pc = "returned"
                 /\ lines = SubSeq(before, 1, afterLine) \o newLines
                                \o SubSeq(before, beforeLine, Len(before))
                 /\ outcome.value = join(lines)

\* C12 witness: insert_between(after 1, before 3) was refused
C12_NotAdjacentRefused ==
    /\ pc = "thrown"
    /\ OneInsertBetween
    /\ AllRefsValid
    /\ parseLineRef(edits[1].after_line).line = 1
    /\ parseLineRef(edits[1].before_line).line = 3
    /\ outcome.error = "NotAdjacent"

(***************************************************************************)
(* Properties of dedupeEdits                                               *)
(***************************************************************************)
\* the positions of es whose edit has a key no earlier edit of es has
FirstOfKey(es) ==
    {i \in 1..Len(es) :
        \A j \in 1..(i - 1) : buildDedupeKey(es[j]) # buildDedupeKey(es[i])}

\* the same for the serialized edit as key
FirstOfJson(es) == {i \in 1..Len(es) : \A j \in 1..(i - 1) : es[j] # es[i]}

\* the edits of es at the positions keep, in the order of es
Kept(es, keep) ==
    LET IndexOf(k) == CHOOSE i \in keep : Cardinality({j \in keep : j <= i}) = k
    IN  [k \in 1..Cardinality(keep) |-> es[IndexOf(k)]]

\* C13: dedupeEdits returns, in their original order, exactly the first edit
\* of each group of edits with the same canonical key, and duplicatesRemoved
\* is the input length minus the output length; dedupeEdits applied to what
\* it returned removes nothing.  The same holds of the version keyed on the
\* serialized edit.
C13_DedupeKeepsFirst ==
    pc = "deduped" =>
        /\ locals.uniqueEdits = Kept(edits, FirstOfKey(edits))
        /\ locals.duplicatesRemoved = Len(edits) - Len(locals.uniqueEdits)
        /\ dedupeEdits(edits) = [edits |-> locals.uniqueEdits,
                                 duplicatesRemoved |-> locals.duplicatesRemoved]
        /\ dedupeEdits(locals.uniqueEdits) = [edits |-> locals.uniqueEdits,
                                              duplicatesRemoved |-> 0]
        /\ FirstOfKey(edits) = 1..Len(edits) =>
               locals.uniqueEdits = edits /\ locals.duplicatesRemoved = 0
        /\ LET j == dedupeEditsJson(edits)
           IN  /\ j.edits = Kept(edits, FirstOfJson(edits))
               /\ j.duplicatesRemoved = Len(edits) - Len(j.edits)
               /\ dedupeEditsJson(j.edits) = [edits |-> j.edits,
                                              duplicatesRemoved |-> 0]

\* C13 witness: of three edits the third had the key of the first without
\* being equal to it, and was dropped behind an edit with another key
C13_LaterDuplicateDropped ==
    /\ pc = "deduped"
    /\ Len(edits) = 3
    /\ edits[3] # edits[1]
    /\ buildDedupeKey(edits[3]) = buildDedupeKey(edits[1])
    /\ buildDedupeKey(edits[2]) # buildDedupeKey(edits[1])
    /\ locals.uniqueEdits = <<edits[1], edits[2]>>
    /\ locals.duplicatesRemoved = 1

(***************************************************************************)
(* Properties of the edit tool: duplicates and unchanged content           *)
(***************************************************************************)
\* the call was handed two set_line edits that normalize to one and the same
\* typed edit
SameSetLineTwice ==
    /\ Len(rawEdits) = 2
    /\ rawEdits[1].type = "set_line"
    /\ rawEdits[2].type = "set_line"
    /\ normalizeEdit(rawEdits[1]).error = "none"
    /\ normalizeEdit(rawEdits[1]) = normalizeEdit(rawEdits[2])

\* the file as the call read it, as lines
LinesAtRead == split(normalizeToLF(stripBom(locals.rawContent).text))

\* C14: when the same set_line edit is submitted twice in one call, also
\* under different alias field names, deduplication leaves one edit and
\* counts one duplicate before anything is validated; the edit is applied
\* once; a call that is not aborted and reads a file the reference matches
\* resolves ("Updated", or the no-change result when the text is the line's
\* own) and what it writes is the file with that one line set; a rejection
\* is the abort or the failure the edit alone gets, never one caused by the
\* second copy.
C14_ResubmittedSetLineOnce ==
    SameSetLineTwice =>
        LET edit == normalizeEdit(rawEdits[1]).edit
            alone == applyHashlineEdits(locals.normalizedContent, <<edit>>)
        IN  /\ locals.normalized =>
                 /\ locals.uniqueEdits = <<edit>>
                 /\ locals.duplicatesRemoved = 1
            /\ tpc = "apply" => edits = <<edit>> /\ Len(applied) <= 1
            /\ locals.applied => applied = <<edit>>
            /\ (tpc = "done" /\ ~aborted /\ locals.read
                  /\ validateLineRef(LinesAtRead, edit.line) = "ok") =>
                 /\ promise.state = "resolved"
                 /\ promise.result = IF alone.value = locals.normalizedContent
                                     THEN "NoChanges" ELSE "Updated"
                 /\ promise.result = "Updated" =>
                      Writes = <<locals.bom \o restoreLineEndings(
                                     alone.value, locals.originalEnding)>>
            /\ promise.state = "rejected" =>
                 \/ promise.result \in {"Aborted", "FileNotFound", "ReadError"}
                 \/ locals.read /\ promise.result = alone.error

\* C14 witness: a set_line and its copy under the alias names start_line and
\* content were submitted, one duplicate was removed, and the file was
\* written with line 1 set once
C14_AliasCopyRemoved ==
    /\ SameSetLineTwice
    /\ rawEdits[1] # rawEdits[2]
    /\ tpc = "done"
    /\ promise = [state |-> "resolved", result |-> "Updated"]
    /\ locals.duplicatesRemoved = 1
    /\ applied = <<SetLineEdit(GoodRef(1), TextX)>>
    /\ disk = join(<<TextX, SampleLines[2], SampleLines[3]>>)

\* execute has called applyHashlineEdits on a batch that validates against
\* the content read and leaves it identical
NoChangeBatch ==
    /\ pc # "idle"
    /\ LET r == applyHashlineEdits(locals.normalizedContent, locals.uniqueEdits)
       IN  r.error = "none" /\ r.value = locals.normalizedContent

\* C15: on a batch that validates and leaves the content identical,
\* applyHashlineEdits returns the content and does not throw, and the tool
\* resolves the call with the no-change result, which is neither "Updated"
\* nor a rejection, and never calls writeFile; the no-change result is given
\* in no other case.
C15_NoChangeIsSoftResult ==
    /\ NoChangeBatch =>
         /\ pc # "thrown"
         /\ pc = "returned" => outcome = Returned(locals.normalizedContent)
         /\ tpc # "write"
         /\ Writes = <<>>
         /\ tpc = "done" =>
              promise = [state |-> "resolved", result |-> "NoChanges"]
    /\ promise.result = "NoChanges" =>
         /\ promise.state = "resolved"
         /\ NoChangeBatch

\* C15 witness: one set_line that sets line 2 to its own text was applied;
\* the call resolved with the no-change result and the file was not written
C15_SetLineToOwnText ==
    /\ rawEdits = <<RawSetLine(GoodRef(2), SampleLines[2])>>
    /\ applied = <<SetLineEdit(GoodRef(2), SampleLines[2])>>
    /\ tpc = "done"
    /\ promise = [state |-> "resolved", result |-> "NoChanges"]
    /\ Writes = <<>>
    /\ disk = locals.rawContent

(***************************************************************************)
(* Properties of computeLineHash                                           *)
(***************************************************************************)
\* text with all whitespace deleted
Stripped(text) == SelectSeq(text, LAMBDA c : ~IsSpace(c))

\* 0 when the stripped text has a letter or a digit, the line number otherwise
SeedOf(n, text) ==
    IF \E i \in 1..Len(text) : IsLetterOrNumber(text[i]) THEN 0 ELSE n

\* C16: computeLineHash(n, c) is the dictionary entry picked by the digest
\* of seed, "\0" and stripped, so two calls with the same seed and the same
\* stripped content give the same hash: contents that differ only in
\* whitespace hash alike at one line number, and at any two line numbers
\* when they hold a letter or a digit; the seed of an empty or
\* punctuation-only line is its line number.
C16_HashFromSeedAndStripped ==
    /\ pc \in {"hashed", "rehashed"} =>
         outcome.value = HASHLINE_DICT(md5Mod256(
             NatToString(SeedOf(refIdx, content)) \o <<NUL>> \o Stripped(content)))
    /\ pc = "rehashed" =>
         LET first == mismatches[1]
         IN  /\ Stripped(first.content) = Stripped(content)
             /\ (SeedOf(first.line, first.content) = SeedOf(refIdx, content))
                  => outcome.value = first.hash
             /\ first.line = refIdx => outcome.value = first.hash
             /\ (\E i \in 1..Len(content) : IsLetterOrNumber(content[i]))
                  => outcome.value = first.hash
             /\ (\A i \in 1..Len(content) : ~IsLetterOrNumber(content[i]))
                  => /\ SeedOf(first.line, first.content) = first.line
                     /\ SeedOf(refIdx, content) = refIdx

\* C16 witness: the line "a" at line 1 was hashed again as " a" at line 2
\* and the hash was the same
C16_RespacedAndMoved ==
    /\ pc = "rehashed"
    /\ mismatches[1].content = <<"a">>
    /\ mismatches[1].line = 1
    /\ content = <<" ", "a">>
    /\ refIdx = 2
    /\ outcome.value = mismatches[1].hash

(***************************************************************************)
(* Properties of parseLineRef                                              *)
(***************************************************************************)
\* C17: parseLineRef returns the line number and the hash a reference was
\* written from, for every line number from 1 and every hash of the
\* dictionary, whether the reference is "n#h" as formatted, the row of
\* formatHashLine with its ":content" suffix, the reference after the ">>> "
\* marker, or the reference with spaces around "#".
C17_ParseReturnsWrittenPair ==
    pc = "parsed" => outcome = Returned(mismatches[1])

(***************************************************************************)
(* Properties of normalizeHashlineEdits                                    *)
(***************************************************************************)
\* the aliases of each reference field of a variant, in the order they are
\* tried
AliasOrders(type) ==
    CASE type = "set_line" -> [line |-> <<"line", "start_line">>]
      [] type \in {"replace_lines", "replace"} ->
           [start_line |-> <<"start_line", "line">>, end_line |-> <<"end_line">>]
      [] type = "insert_after" ->
           [line |-> <<"line", "after_line", "end_line", "start_line">>]
      [] type = "insert_before" ->
           [line |-> <<"line", "before_line", "start_line">>]
      [] type = "insert_between" ->
           [after_line |-> <<"after_line", "start_line">>,
            before_line |-> <<"before_line", "end_line">>]
      [] OTHER -> [text |-> <<>>]

KnownTypes == RawTypes \ {"delete"}

\* the positions of the aliases that hold a non-empty string
Resolving(raw, order) ==
    {i \in 1..Len(order) : raw[order[i]] # Undefined /\ raw[order[i]] # <<>>}

\* the first of them
FirstAlias(raw, order) ==
    raw[order[CHOOSE i \in Resolving(raw, order) :
                  \A j \in Resolving(raw, order) : i <= j]]

\* every reference field of the raw edit's variant has an alias that resolves
AllResolve(raw) ==
    \A f \in DOMAIN AliasOrders(raw.type) \ {"text"} :
        Resolving(raw, AliasOrders(raw.type)[f]) # {}

\* the typed edit is the raw edit with each reference taken from its first
\* resolving alias, text from text, else content, else empty, and no other
\* reference field
FilledFrom(edit, raw) ==
    /\ edit.type = raw.type
    /\ \A i \in 1..Len(RefFields) :
         edit[RefFields[i]] =
             IF RefFields[i] \in DOMAIN AliasOrders(raw.type)
             THEN FirstAlias(raw, AliasOrders(raw.type)[RefFields[i]])
             ELSE Undefined
    /\ edit.text = IF raw.text # Undefined THEN raw.text
                   ELSE IF raw.content # Undefined THEN raw.content ELSE <<>>

\* the raw edits that are of no known type or lack a reference
Malformed(raws) ==
    {i \in 1..Len(raws) : raws[i].type \notin KnownTypes \/ ~AllResolve(raws[i])}

\* C18: normalizeHashlineEdits returns, for a batch of well-formed raw
\* edits, one typed edit per raw edit, each reference field filled from the
\* first alias in the variant's order that holds a non-empty string and
\* text from text, else content; a batch with a malformed edit is thrown
\* as a whole, with the unknown-edit-type error when the first malformed
\* edit's type is none of the eight and the missing-field error when a
\* reference of it has no resolving alias, and no edit is returned.
C18_AliasesFilledInOrder ==
    /\ pc = "returned" =>
         /\ Malformed(rawEdits) = {}
         /\ Len(outcome.value) = Len(rawEdits)
         /\ \A i \in 1..Len(rawEdits) : FilledFrom(outcome.value[i], rawEdits[i])
    /\ pc = "thrown" =>
         /\ Malformed(rawEdits) # {}
         /\ outcome.value = <<>>
         /\ LET first == rawEdits[CHOOSE i \in Malformed(rawEdits) :
                                      \A j \in Malformed(rawEdits) : i <= j]
            IN  outcome.error = IF first.type \in KnownTypes
                                THEN "MissingField" ELSE "UnknownEditType"
    /\ pc = "normalize" =>
         \A i \in 1..(editIdx - 1) : i \notin Malformed(rawEdits)

\* C18 witness: an insert_after whose line is absent and whose after_line is
\* empty took its reference from end_line, before start_line, and its text
\* from content
C18_ThirdAliasUsed ==
    /\ pc = "returned"
    /\ rawEdits = <<[RawHashlineEdit("insert_after") EXCEPT
                         !.after_line = <<>>, !.end_line = FieldRef(3),
                         !.start_line = FieldRef(2), !.content = TextY]>>
    /\ outcome.value = <<InsertAfterEdit(FieldRef(3), TextY)>>

(***************************************************************************)
(* Properties of the edit tool: line endings and byte order mark           *)
(***************************************************************************)
\* the positions of the line breaks of a string and the kinds found there
HasLineBreak(s) == \E i \in 1..Len(s) : s[i] \in {CR, NL}

EveryBreakCRLF(s) ==
    /\ \A i \in 1..Len(s) : s[i] = NL => (i > 1 /\ s[i - 1] = CR)
    /\ \A i \in 1..Len(s) : s[i] = CR => (i < Len(s) /\ s[i + 1] = NL)

EveryBreakLF(s) == \A i \in 1..Len(s) : s[i] # CR

StartsWithBOM(s) == Len(s) > 0 /\ s[1] = BOM

\* C19: the references are validated against the lines of the file without
\* its BOM and with LF line endings, and a call that reports "Updated" has
\* written content in which every line break is CRLF when the file read
\* had line breaks and all of them were CRLF, every line break is LF when
\* all of the file's were LF, and which starts with a BOM exactly when the
\* file read did.
C19_EndingsAndBomPreserved ==
    /\ tpc \in {"apply", "write"} =>
         content = normalizeToLF(stripBom(locals.rawContent).text)
    /\ (promise.result = "Updated" /\ Len(Writes) = 1) =>
         /\ (HasLineBreak(locals.rawContent) /\ EveryBreakCRLF(locals.rawContent))
              => EveryBreakCRLF(Writes[1])
         /\ EveryBreakLF(locals.rawContent) => EveryBreakLF(Writes[1])
         /\ StartsWithBOM(Writes[1]) <=> StartsWithBOM(locals.rawContent)

(***************************************************************************)
(* Properties of generateDiffString                                        *)
(***************************************************************************)
\* the number of lines of a part: its newlines, and one more for a last
\* line without newline
PartLineCount(value) ==
    Cardinality({k \in 1..Len(value) : value[k] = NL})
        + (IF Len(value) > 0 /\ value[Len(value)] # NL THEN 1 ELSE 0)

\* the parts of the diff that are added or removed
ChangedParts == {i \in 1..Len(sortedEdits) :
                    sortedEdits[i].added \/ sortedEdits[i].removed}

\* the lines of the new content that come before part i
NewLinesBefore(i) ==
    IF i = 1 THEN 0
    ELSE Cardinality({k \in 1..Len(disk) : disk[k] = NL /\
             k <= Len(Concat([j \in 1..(i - 1) |->
                                 IF sortedEdits[j].removed THEN <<>>
                                 ELSE sortedEdits[j].value]))})

\* C20: generateDiffString returns as firstChangedLine the 1-based number,
\* counted in the new content, of the line at which the first added or
\* removed part of the line diff begins, and returns it undefined exactly
\* when the old and the new content are identical.
C20_FirstChangedLine ==
    pc = "returned" =>
        /\ (outcome.value.firstChangedLine = <<>>) <=> (content = disk)
        /\ ChangedParts # {} =>
             LET first == CHOOSE i \in ChangedParts : \A j \in ChangedParts : i <= j
             IN  /\ outcome.value.firstChangedLine = <<NewLinesBefore(first) + 1>>
                 /\ first > 1 =>
                      NewLinesBefore(first) = PartLineCount(sortedEdits[1].value)
                 /\ SubSeq(lineTokens(disk), 1, NewLinesBefore(first))
                        = SubSeq(lineTokens(content), 1, NewLinesBefore(first))

\* C20 witness: with contextLines 1 the first of two unchanged lines was
\* skipped and the change that follows them is reported at line 3
C20_ChangeAtLineThree ==
    /\ pc = "returned"
    /\ refIdx = 1
    /\ Len(lines) > 0
    /\ lines[1] = skippedRow(1)
    /\ outcome.value.firstChangedLine = <<3>>
    /\ content # disk

(***************************************************************************)
(* Properties of generateDiffString: unchanged runs                        *)
(***************************************************************************)
RECURSIVE LinesBefore(_, _)
\* the lines of the old (side = "old") or new content in the parts before
\* part i
LinesBefore(i, side) ==
    IF i <= 1 THEN 0
    ELSE LinesBefore(i - 1, side)
           + (IF (side = "old" /\ sortedEdits[i - 1].added)
                  \/ (side = "new" /\ sortedEdits[i - 1].removed)
              THEN 0 ELSE PartLineCount(sortedEdits[i - 1].value))

\* line k of part i
PartLine(i, k) == lineTokens(sortedEdits[i].value)[k]

\* line k of part i without its newline
PartLineText(i, k) ==
    SelectSeq(PartLine(i, k), LAMBDA c : c # NL)

\* rows from..to of part i, each with the sign and its line number on the
\* given side
NumberedRows(i, from, to, sign, side) ==
    [k \in 1..(to - from + 1) |->
        diffRow(sign, LinesBefore(i, side) + from + k - 1,
                lineNumWidth(content, disk), PartLineText(i, from + k - 1))]

\* the unchanged parts that have a changed part before or after them
RunsNextToChange ==
    {i \in 1..Len(sortedEdits) :
        /\ i \notin ChangedParts
        /\ (i - 1 \in ChangedParts \/ i + 1 \in ChangedParts)}

\* the rows of part i: a changed part in full under its own numbering; an
\* unchanged part between two changes in full; before the first change its
\* last refIdx lines, after the last change its first refIdx lines, with one
\* "..." row for the rest; no row when no change is next to it
RowsOfPart(i) ==
    LET n == PartLineCount(sortedEdits[i].value)
        dots == <<skippedRow(lineNumWidth(content, disk))>>
    IN  IF sortedEdits[i].added THEN NumberedRows(i, 1, n, "+", "new")
        ELSE IF sortedEdits[i].removed THEN NumberedRows(i, 1, n, "-", "old")
        ELSE IF i - 1 \in ChangedParts /\ i + 1 \in ChangedParts
        THEN NumberedRows(i, 1, n, " ", "old")
        ELSE IF i + 1 \in ChangedParts
        THEN IF n > refIdx
             THEN dots \o NumberedRows(i, n - refIdx + 1, n, " ", "old")
             ELSE NumberedRows(i, 1, n, " ", "old")
        ELSE IF i - 1 \in ChangedParts
        THEN IF n > refIdx
             THEN NumberedRows(i, 1, refIdx, " ", "old") \o dots
             ELSE NumberedRows(i, 1, n, " ", "old")
        ELSE <<>>

\* C21 (as stated): every unchanged run longer than twice contextLines is
\* replaced by a single "..." row and every shorter run next to a change is
\* shown in full, so the output has one "..." row per run longer than twice
\* contextLines and no other
C21_RunsOverTwiceContextCollapsed ==
    pc = "returned" =>
        Cardinality({k \in 1..Len(lines) :
                        lines[k] = skippedRow(lineNumWidth(content, disk))})
            = Cardinality({i \in RunsNextToChange :
                              PartLineCount(sortedEdits[i].value) > 2 * refIdx})

\* C21 (amended): of an unchanged run before the first change the last
\* contextLines lines are shown, of one after the last change the first
\* contextLines lines, and one "..." row stands for the rest when the run
\* is longer than contextLines; an unchanged run between two changes is
\* shown in full whatever its length.  Through the whole loop both line
\* counters are one more than the old and new lines of the parts passed,
\* skipped or shown, so every row carries its true line number.
C21_RunsCutToContextAtTheEnds ==
    /\ pc = "diff" =>
         /\ locals.oldLineNum = LinesBefore(editIdx, "old") + 1
         /\ locals.newLineNum = LinesBefore(editIdx, "new") + 1
    /\ pc = "returned" =>
         lines = Concat([i \in 1..Len(sortedEdits) |-> RowsOfPart(i)])

\* C21 witness: with contextLines 1, three unchanged lines between two
\* removed lines were all shown, numbered 2, 3 and 4
C21_LongRunBetweenChangesShown ==
    /\ pc = "returned"
    /\ refIdx = 1
    /\ Len(sortedEdits) = 3
    /\ ChangedParts = {1, 3}
    /\ PartLineCount(sortedEdits[2].value) = 3
    /\ lines = << <<"-", "1", "|", "a">>, <<" ", "2", "|">>, <<" ", "3", "|">>,
                  <<" ", "4", "|">>, <<"-", "5", "|", "a">> >>

(***************************************************************************)
(* Properties of the apply loop                                            *)
(***************************************************************************)
\* the batch is one applyHashlineEdits returns on
Accepted == applyHashlineEdits(content, edits).error = "none"

\* line n of the buffer is there and holds what line n of the original holds
HoldsOriginal(n) == n <= Len(lines) /\ lines[n] = split(content)[n]

\* C22: while an accepted batch is applied in descending anchor order, at
\* the moment an edit is applied every line that it and every edit not yet
\* applied references still holds, at the same index, the content it had in
\* the original buffer.
C22_PendingAnchorsUntouched ==
    (pc = "apply" /\ editIdx <= Len(sortedEdits) /\ Accepted) =>
        \A k \in editIdx..Len(sortedEdits) :
            \A i \in 1..Len(editLineRefs(sortedEdits[k])) :
                HoldsOriginal(parseLineRef(editLineRefs(sortedEdits[k])[i]).line)

\* C23: every check on the batch (reference format, bounds, hash match,
\* range order, insert_between adjacency) is completed before the first
\* splice or assignment on the line buffer, so a call that throws has
\* applied no edit and its buffer still holds the original lines.
C23_NoErrorAfterMutation ==
    pc = "thrown" => (applied = <<>> /\ lines \in {<<>>, split(content)})

(***************************************************************************)
(* Frame of an accepted batch                                              *)
(***************************************************************************)

\* original line n lies inside the range of a range edit or is the target of
\* a set_line
Touched(n) ==
    \E i \in 1..Len(edits) :
        \/ /\ IsRangeEdit(edits[i])
           /\ EditStart(edits[i]) <= n /\ n <= EditEnd(edits[i])
        \/ edits[i].type = "set_line" /\ parseLineRef(edits[i].line).line = n

\* the original lines no edit of the batch touches, in their order
UntouchedLines ==
    LET orig == split(content)
        at == SelectSeq([n \in 1..Len(orig) |-> n], LAMBDA n : ~Touched(n))
    IN  [k \in 1..Len(at) |-> orig[at[k]]]

RECURSIVE IsSubsequence(_, _)
\* the elements of s occur in t in the order of s
IsSubsequence(s, t) ==
    IF Len(s) = 0 THEN TRUE
    ELSE IF Len(t) = 0 THEN FALSE
    ELSE IF Head(s) = Head(t) THEN IsSubsequence(Tail(s), Tail(t))
    ELSE IsSubsequence(s, Tail(t))

\* the lines an edit puts into the file and the lines it takes out
LinesInserted(e) ==
    IF IsRangeEdit(e) THEN Len(replacementLines(e.text))
    ELSE Len(split(unescapeNewlines(e.text)))

LinesRemoved(e) ==
    IF IsRangeEdit(e) THEN EditEnd(e) - EditStart(e) + 1
    ELSE IF e.type = "set_line" THEN 1 ELSE 0

RECURSIVE NetLines(_)
NetLines(es) ==
    IF Len(es) = 0 THEN 0
    ELSE LinesInserted(Head(es)) - LinesRemoved(Head(es)) + NetLines(Tail(es))

\* the frame of the batch holds for the returned content
FrameKept ==
    LET result == split(outcome.value)
    IN  /\ IsSubsequence(UntouchedLines, result)
        /\ \A k \in 1..Len(UntouchedLines) :
              Cardinality({n \in 1..Len(result) : result[n] = UntouchedLines[k]}) = 1
        /\ Len(result) = Len(split(content)) + NetLines(edits)

\* C24: in the result of an accepted batch every original line that is
\* neither inside a replaced range nor the target of a set_line appears
\* exactly once, unchanged and in its original order, and the result has the
\* original number of lines plus the lines inserted minus the lines removed.
C24_FrameOfAcceptedBatch ==
    (pc = "returned" /\ Len(edits) > 0) => FrameKept

(***************************************************************************)
(* Insertions that share an anchor                                         *)
(***************************************************************************)

\* the batch is two insertions of the same type at the same anchor (the same
\* line for insert_after and insert_before, the file's end for append, its
\* start for prepend) whose texts start with different lines
SameAnchorInserts(types) ==
    /\ Len(edits) = 2
    /\ edits[1].type = edits[2].type
    /\ edits[1].type \in types
    /\ edits[1].line = edits[2].line
    /\ unescapeNewlines(edits[1].text) # <<>>
    /\ unescapeNewlines(edits[2].text) # <<>>
    /\ split(unescapeNewlines(edits[1].text))[1]
           # split(unescapeNewlines(edits[2].text))[1]

\* where the text of edit i starts in the returned content
TextPosition(i) ==
    LET result == split(outcome.value)
        first == split(unescapeNewlines(edits[i].text))[1]
    IN  CHOOSE n \in 1..Len(result) :
            /\ result[n] = first
            /\ \A m \in 1..(n - 1) : result[m] # first

\* the text of edit i stands in the result before the text of edit j
TextBefore(i, j) ==
    /\ \E n \in 1..Len(split(outcome.value)) :
          split(outcome.value)[n] = split(unescapeNewlines(edits[i].text))[1]
    /\ \E n \in 1..Len(split(outcome.value)) :
          split(outcome.value)[n] = split(unescapeNewlines(edits[j].text))[1]
    /\ TextPosition(i) < TextPosition(j)

\* C25 as stated: the texts of insertions that share an anchor appear in the
\* result in submission order
C25_SameAnchorInSubmissionOrder ==
    (pc = "returned"
     /\ SameAnchorInserts({"insert_after", "insert_before", "prepend", "append"}))
    => TextBefore(1, 2)

\* C25: of two insertions that share an anchor the texts of two append edits
\* appear in submission order, and the texts of two insert_after, two
\* insert_before or two prepend edits appear in reverse submission order (the
\* edit submitted later comes first)
C25_OnlyAppendsInSubmissionOrder ==
    /\ (pc = "returned" /\ SameAnchorInserts({"append"})) => TextBefore(1, 2)
    /\ (pc = "returned"
        /\ SameAnchorInserts({"insert_after", "insert_before", "prepend"}))
       => TextBefore(2, 1)

\* C25 witness: two insert_after on the same line have returned, the text
\* submitted second standing first
C25_InsertAfterReversed ==
    /\ pc = "returned"
    /\ SameAnchorInserts({"insert_after"})
    /\ TextBefore(2, 1)

(***************************************************************************)
(* Edit tool: abort and write                                              *)
(***************************************************************************)

\* the promise was rejected with 'Operation aborted'
RejectedAsAborted == promise = [state |-> "rejected", result |-> "Aborted"]

\* ops.writeFile was called and has settled: the file holds the new content
FileWritten == CountCalls("writeFile") = 1 /\ tpc = "done"

\* C26 as stated: a call rejected with 'Operation aborted' has not written
\* the file, and once the signal has fired the promise is never resolved
C26_AbortedNeverWritten ==
    /\ RejectedAsAborted => ~FileWritten
    /\ signal = "fired" => promise.state # "resolved"

\* C26: once a call is rejected with 'Operation aborted' it calls none of
\* access, readFile and writeFile any more, so a call aborted before
\* writeFile was called has not written the file, while a writeFile already
\* in flight when the signal fires still completes; and once the signal has
\* fired the promise is never resolved.
C26_NoOperationStartedAfterAbort ==
    /\ [](signal = "fired" => promise.state # "resolved")
    /\ []((RejectedAsAborted /\ tpc # "write" /\ ~FileWritten)
              => CountCalls("writeFile") = 0)
    /\ [][RejectedAsAborted => opsLog' = opsLog]_vars

\* C26 witness: the signal fired while writeFile was in flight: the call is
\* rejected as aborted and the file holds the new content
C26_AbortedDuringWrite ==
    /\ RejectedAsAborted
    /\ FileWritten
    /\ disk = locals.finalContent
    /\ signal = "fired"

(***************************************************************************)
(* Deduplication and the effect of an edit                                 *)
(***************************************************************************)

\* what applyHashlineEdits makes of the content when edit e is applied alone
AppliedAlone(e) == applyHashlineEdits(content, <<e>>)

\* C27: two edits of a batch that dedupeEdits has treated as duplicates (the
\* later one was dropped for having the key of the earlier one) produce the
\* same result when each is applied alone to the same content.
C27_DuplicatesHaveSameEffect ==
    (pc = "deduped" /\ locals.duplicatesRemoved > 0) =>
        \A i, j \in 1..Len(edits) :
            buildDedupeKey(edits[i]) = buildDedupeKey(edits[j])
                => AppliedAlone(edits[i]) = AppliedAlone(edits[j])

(***************************************************************************)
(* Raw edits without text                                                  *)
(***************************************************************************)

\* the raw edit supplies neither text nor content
Textless == rawEdits[1].text = Undefined /\ rawEdits[1].content = Undefined

\* the raw edit names the lines its type needs
HasRefs == normalizeEdit(rawEdits[1]).error = "none"

\* the line array with the lines from to to taken out and items put in
WithLines(from, to, items) ==
    LET orig == split(content)
    IN  SubSeq(orig, 1, from - 1) \o items \o SubSeq(orig, to + 1, Len(orig))

\* the line array the textless edit of the batch has to leave
TextlessResult ==
    LET raw == rawEdits[1]
        n == Len(split(content))
        line == parseLineRef(raw.line).line
        from == parseLineRef(raw.start_line).line
        to == parseLineRef(raw.end_line).line
        blank == << <<>> >>
    IN  CASE raw.type \in {"replace_lines", "replace"} -> WithLines(from, to, <<>>)
          [] raw.type = "set_line" -> WithLines(line, line, blank)
          [] raw.type = "insert_after" -> WithLines(line + 1, line, blank)
          [] raw.type = "insert_before" -> WithLines(line, line - 1, blank)
          [] raw.type = "append" -> WithLines(n + 1, n, blank)
          [] raw.type = "prepend" -> WithLines(1, 0, blank)

\* C28: a raw edit with neither text nor content is normalized to an edit
\* with empty text and is not rejected for it; applied, a replace_lines or
\* replace deletes its range, a set_line blanks its line, and an
\* insert_after, insert_before, append or prepend adds one empty line.
C28_TextlessEditHasEmptyText ==
    (Textless /\ HasRefs) =>
        /\ pc \notin {"normalize", "thrown"} => edits[1].text = <<>>
        /\ pc = "thrown" => /\ outcome.error \in {"InvalidRange", "NotAdjacent"}
                            /\ Len(edits) = 1
        /\ (pc = "returned" /\ rawEdits[1].type # "insert_between") =>
              /\ lines = TextlessResult
              /\ outcome.value = join(TextlessResult)

\* C28 witness: an insert_after without text has added one empty line after
\* its anchor
C28_EmptyLineInserted ==
    /\ Textless
    /\ rawEdits[1].type = "insert_after"
    /\ pc = "returned"
    /\ Len(lines) = Len(split(content)) + 1
    /\ lines[parseLineRef(rawEdits[1].line).line + 1] = <<>>

(***************************************************************************)
(* Properties of stripLinePrefixes                                         *)
(***************************************************************************)

\* the lines of the argument that are not empty
NonEmptyLines == {i \in 1..Len(lines) : lines[i] # <<>>}

\* the line starts with digits, "#", two letters of the hash alphabet and a
\* ":" or "|"
CarriesHashline(line) ==
    /\ Len(line) >= 5
    /\ \E k \in 1..(Len(line) - 4) :
          /\ \A m \in 1..k : \E d \in 1..Len(Digits) : Digits[d] = line[m]
          /\ line[k + 1] = "#"
          /\ IsHashChar(line[k + 2]) /\ IsHashChar(line[k + 3])
          /\ line[k + 4] \in {":", "|"}

\* the line starts with one "+" that no second "+" follows
CarriesPlus(line) ==
    Len(line) >= 1 /\ line[1] = "+" /\ (Len(line) >= 2 => line[2] # "+")

\* the line after its first ":" or "|"
AfterSeparator(line) ==
    LET at == CHOOSE k \in 1..Len(line) :
                  /\ line[k] \in {":", "|"}
                  /\ \A m \in 1..(k - 1) : line[m] \notin {":", "|"}
    IN  SubSeq(line, at + 1, Len(line))

\* at least half of the non-empty lines, and at least one, satisfy Carries
AtLeastHalf(Carries(_)) ==
    LET with == {i \in NonEmptyLines : Carries(lines[i])}
    IN  with # {} /\ 2 * Cardinality(with) >= Cardinality(NonEmptyLines)

\* C29: stripLinePrefixes removes the hashline prefix from every line that
\* carries it when at least half of the non-empty lines carry one; otherwise
\* it removes the "+" from every line that starts with a single "+" when at
\* least half of the non-empty lines do; otherwise it returns the lines
\* unchanged.  Lines without the prefix are left as they are.
C29_StripsPrefixOfAtLeastHalf ==
    pc = "returned" =>
        /\ Len(outcome.value) = Len(lines)
        /\ \A i \in 1..Len(lines) :
              outcome.value[i] =
                  IF AtLeastHalf(CarriesHashline)
                  THEN IF CarriesHashline(lines[i]) THEN AfterSeparator(lines[i])
                       ELSE lines[i]
                  ELSE IF AtLeastHalf(CarriesPlus) /\ CarriesPlus(lines[i])
                  THEN Tail(lines[i])
                  ELSE lines[i]

\* C29 witness: exactly half of the non-empty lines start with a single "+",
\* and it was removed
C29_HalfWithPlusStripped ==
    /\ pc = "returned"
    /\ Cardinality(NonEmptyLines) = 2
    /\ Cardinality({i \in NonEmptyLines : CarriesPlus(lines[i])}) = 1
    /\ ~AtLeastHalf(CarriesHashline)
    /\ outcome.value # lines

(***************************************************************************)
(* Properties of ConcurrencyManager                                        *)
(***************************************************************************)

\* the tasks of a model whose acquire has completed and that have not
\* released yet
Holders(l, model) ==
    {t \in Tasks : /\ l.tasks[t].modelKey = model
                   /\ l.tasks[t].status \in {"pending", "running"}
                   /\ ~IsWaiting(l, t)}

\* the tasks blocked in acquire
Blocked(l, model) ==
    {t \in Tasks : l.tasks[t].status = "pending" /\ l.tasks[t].modelKey = model
                   /\ IsWaiting(l, t)}

\* at no time more holders than the limit, and nobody blocked while a slot is
\* free
SlotsRespected ==
    \A model \in ModelKeys :
        /\ Cardinality(Holders(locals, model)) <= locals.defaultLimit
        /\ Cardinality(Holders(locals, model)) = locals.running[model]
        /\ Blocked(locals, model) # {} =>
              Cardinality(Holders(locals, model)) = locals.defaultLimit
        /\ Cardinality(Blocked(locals, model)) = Len(locals.waiters[model])

\* the step is a release by task t while callers of its model wait
ReleasesWithWaiters(t) ==
    /\ t \in Holders(locals, locals.tasks[t].modelKey)
    /\ locals'.tasks[t].status \in {"completed", "aborted"}
    /\ locals.waiters[locals.tasks[t].modelKey] # <<>>

\* the waiter at the head of the queue, every other waiter having queued
\* after it, gets the slot, and the running count stays
HandsToLongestWaiting(model) ==
    /\ locals'.running[model] = locals.running[model]
    /\ Head(locals.waiters[model]) \in Holders(locals', model)
    /\ locals'.waiters[model] = Tail(locals.waiters[model])

\* C30: for each model key the callers that have acquired and not released
\* never exceed the limit, a release with callers waiting hands the slot to
\* the longest-waiting caller without changing the running count, and no
\* caller is blocked while a slot is free.
C30_PerModelSemaphore ==
    /\ []SlotsRespected
    /\ [][\A t \in Tasks :
             ReleasesWithWaiters(t) =>
                 HandsToLongestWaiting(locals.tasks[t].modelKey)]_vars

\* C30 witness: a model whose only slot is held by a task that has not
\* started yet, with a caller waiting behind it and a task of the model
\* that has already released
C30_WaiterBehindFullModel ==
    \E model \in ModelKeys :
        /\ locals.defaultLimit = 1
        /\ locals.running[model] = 1
        /\ \E t \in Holders(locals, model) : locals.tasks[t].status = "pending"
        /\ Len(locals.waiters[model]) = 1
        /\ \E t \in Tasks : /\ locals.tasks[t].status = "completed"
                            /\ locals.tasks[t].modelKey = model
====
